---- MODULE Spec2Model ----
(***************************************************************************)
(* Schema synchronization and load engine of the Vault Direct Data         *)
(* connector (common/vault/direct_data_files_interface.py,                 *)
(* common/redshiftManager.py, common/aws_utilities.py).                    *)
(*                                                                         *)
(* Spec        one run of verify_redshift_tables: planning, create,        *)
(*             verify, delete and load, each fanned out over the worker    *)
(*             pool of execute_in_threads.                                 *)
(* SpecLoad    the rows of one table under load_full_data and delete_data, *)
(*             statement by statement.                                     *)
(* SpecVerify  the columns and rows of one table under                     *)
(*             create_redshift_table and redshift_update_table over        *)
(*             successive runs with changing catalogs.                     *)
(***************************************************************************)
EXTENDS Integers, Sequences, FiniteSets, Bags, TLC

\* ------------------------------------------------------------------ bounds
MaxWorkers == 2          \* threads of the ThreadPoolExecutor
MaxRows == 2             \* rows of the manifest
MaxTableRows == 2        \* rows of a warehouse table
MaxFileRows == 2         \* rows of an updates or deletes file
MaxFields == 2           \* declared columns of the table of the column mapper
MaxUnits == 2            \* units of work handed to the pool of one phase
MaxDocs == 3             \* document version IDs of the ID file
BatchSize == 2           \* batch_size (10000) of retrieve_doc_version_ids_from_s3, scaled

\* ------------------------------------------------------------------- names
\* An extract name "Category.table" is the record [cat, tbl]; a name without a
\* dot ("table") has cat = "".
Full(c, t) == [cat |-> c, tbl |-> t]
Short(t) == [cat |-> "", tbl |-> t]
\* value.split('.')[-1]
SplitLast(n) == Short(n.tbl)
HasDot(n) == n.cat # ""

MetadataName == Full("Metadata", "metadata")
MetadataDeletesName == Full("Metadata", "metadata_deletes")
ObjectA == Full("Object", "a")
ObjectB == Full("Object", "b")

Extracts == {ObjectA, ObjectB, MetadataName}
TableNames == {"a", "b", "metadata"}

\* Candidate manifest rows {extract, type, records}.
ManifestRows ==
    [extract : {ObjectA}, type : {"updates", "deletes"}, records : {0, 1}]
    \cup [extract : {ObjectB}, type : {"updates"}, records : {1}]
    \cup [extract : {MetadataName}, type : {"updates"}, records : {0, 1}]

\* The manifests of a run: one row per (extract, type) file, at least one row and
\* at most MaxRows rows.
Manifests ==
    {m \in SUBSET ManifestRows :
        /\ m # {}
        /\ Cardinality(m) <= MaxRows
        /\ \A r1, r2 \in m : (r1.extract = r2.extract /\ r1.type = r2.type) => r1 = r2}

\* The metadata catalog, as the set of extracts it declares columns for.
MetadataCatalogs == {{ObjectA, ObjectB}, {ObjectA}}

\* The delete-metadata catalog: absent (None), or rows (extract, column_name).
NoFile == [present |-> FALSE, rows |-> {}]
DeleteRows == [extract : {ObjectA}, column_name : {"id", "c"}]
DeleteCatalogs == {NoFile} \cup {[present |-> TRUE, rows |-> {r}] : r \in DeleteRows}

\* The warehouse before the run: no schema, or a schema holding some of the tables.
InitialTables == {{}, {"metadata"}, {"a", "metadata"}, {"a", "b", "metadata"}}

Phases == {"planning", "create", "verify", "delete", "load"}

\* The descriptor files of the run: well formed, or the manifest lacks one of the
\* columns process_row reads (extract, type, records, file), or the metadata
\* catalog lacks one of the columns the corrections test (extract, column_name).
Malformations == {"none", "manifest", "metadata"}

VARIABLES
    malformed,                   \* the CSV that lacks a required column, or "none"
    extract_type,                \* "full" | "incremental"
    manifest,                    \* the manifest rows
    metadata_dataframe,          \* the extracts the metadata catalog describes
    metadata_deletes_dataframe,  \* the delete-metadata catalog
    schema_exists,               \* warehouse: the target schema exists
    tables,                      \* warehouse: the tables of the schema
    tables_to_verify,            \* list
    tables_to_create,            \* list
    tables_to_load,              \* keys of the dict
    tables_to_delete,            \* keys of the dict
    tables_dropped,              \* result of drop_table_for_deleted_objects
    main,                        \* the main thread's position
    active,                      \* the main thread is inside execute_in_threads
    pool,                        \* phase -> the futures submitted for it
    stmts,                       \* statements issued to the warehouse
    errlog                       \* exceptions logged by execute_in_threads

runVars == <<malformed, extract_type, manifest, metadata_dataframe, metadata_deletes_dataframe,
             schema_exists, tables, tables_to_verify, tables_to_create, tables_to_load,
             tables_to_delete, tables_dropped, main, active, pool, stmts, errlog>>

\* The rows of one table (SpecLoad).
VARIABLES
    table_name,                  \* the table loaded into or deleted from
    target,                      \* warehouse: the rows of the table, a bag
    updates_file,                \* the rows of the updates CSV at s3_uri, a bag
    deletes_file,                \* the rows of the deletes CSV at s3_file_uri, a bag
    staging,                     \* the rows of <table>_staging, a bag
    temp_deletes,                \* the rows of temp_<table>_deletes, a bag
    lpc,                         \* the position in load_full_data / delete_data
    after_first_run              \* the rows of the table when the first run ended

loadVars == <<table_name, target, updates_file, deletes_file, staging, temp_deletes, lpc,
              after_first_run>>

\* The columns and rows of one table (SpecVerify).
VARIABLES
    table_columns,               \* warehouse: column -> [data_type, length, pk]
    table_rows,                  \* warehouse: the rows of the table, a bag
    temp_columns,                \* warehouse: the columns of <table>_temp
    temp_rows,                   \* warehouse: the rows of <table>_temp
    new_column_names,            \* the declared columns: column -> [type, length]
    columns_to_drop,             \* the columns the delete-metadata catalog lists
    current_column_dict,         \* the local of redshift_update_table
    vpc,                         \* the position in redshift_update_table
    issued,                      \* schema statements issued since the call
    table_before,                \* the table when its columns were fetched
    repeat                       \* the call repeats the previous, returned, call

verifyVars == <<table_columns, table_rows, temp_columns, temp_rows, new_column_names,
                columns_to_drop, current_column_dict, vpc, issued, table_before, repeat>>

\* The declared columns of one table and what the column mapper makes of them
\* (SpecSql).
VARIABLES
    creation_columns,            \* the declared columns: column -> [type, length]
    is_picklist,                 \* the table is Picklist.picklist__sys
    column_types,                \* what create_sql_str returned: the created columns
    headers_str,                 \* the column list get_csv_headers hands to COPY
    columns_added,               \* the columns a later verify takes to be new
    qpc                          \* the position in create, load and verify

sqlVars == <<creation_columns, is_picklist, column_types, headers_str, columns_added, qpc>>

\* The warehouse connections of the pool threads of one phase (SpecConn).
VARIABLES
    phase_kind,                  \* the task of the phase: plan, verify, load or delete
    queued,                      \* the units of work no thread has taken yet
    work,                        \* thread -> the calls its unit of work has still to make
    inflight,                    \* thread -> the call that has executed and not returned
    thread_local_conn,           \* thread_local.conn of each thread: a connection or 0 (None)
    connected,                   \* self.connected of the one RedshiftConnection object
    connections,                 \* the connections opened: [opener, st, users, reused]
    chain                        \* thread -> the connections its unit ran run_query on

connVars == <<phase_kind, queued, work, inflight, thread_local_conn, connected, connections,
              chain>>

\* The document-version-ID file and the chain of extract_docs job steps (SpecDocs).
VARIABLES
    file_exists,                 \* S3: the object at DOC_VERSION_IDS exists
    file_content,                \* S3: the list of IDs in the object
    original,                    \* the list the file held when the chain was started
    doc_version_ids,             \* the local of the step: the batch to export
    exported,                    \* the IDs of the export requests that succeeded, a bag
    dpc                          \* the position in the step

docsVars == <<file_exists, file_content, original, doc_version_ids, exported, dpc>>

\* create_new_redshift_tables of the sequential engine that app/run.py runs
\* (SpecApp).
VARIABLES
    app_table_names,             \* table_names: the tables to create, a list
    reference_columns,           \* metadata catalog: table -> its columns with a reference
    relation_alter_table_and_columns,  \* the dict the loop fills
    table_index,                 \* the tables the loop has been through
    reference_index,             \* the entries update_reference_columns has been through
    sql_log,                     \* the statements issued, in order
    apc                          \* the position in create_new_redshift_tables

appVars == <<app_table_names, reference_columns, relation_alter_table_and_columns, table_index,
             reference_index, sql_log, apc>>

vars == <<runVars, loadVars, verifyVars, sqlVars, connVars, docsVars, appVars>>

\* ----------------------------------------------------------------- helpers
Range(s) == {s[i] : i \in DOMAIN s}

RECURSIVE SetToSeq(_)
SetToSeq(S) ==
    IF S = {} THEN <<>>
    ELSE LET x == CHOOSE y \in S : TRUE IN <<x>> \o SetToSeq(S \ {x})

Unit(arg) == [arg |-> arg, st |-> "queued", pc |-> 0, res |-> FALSE]
Units(args) == [i \in DOMAIN args |-> Unit(args[i])]

Stmt(op, t, ok) == [op |-> op, tbl |-> t, ok |-> ok]

Finished(u) == u.st \in {"returned", "raised"}
Started(u) == u.st # "queued"

NoPool == [p \in Phases |-> <<>>]

\* The bags of at most n elements of S.
RECURSIVE BagsOf(_, _)
BagsOf(S, n) ==
    IF n = 0 THEN {EmptyBag}
    ELSE LET smaller == BagsOf(S, n - 1)
         IN  smaller \cup {b (+) SetToBag({x}) : b \in smaller, x \in S}

\* The rows of bag b that are in S, each with its copies.
BagRestrict(b, S) == [r \in DOMAIN b \cap S |-> b[r]]

\* A table that does not exist has no column.
NoTable == [c \in {} |-> {}]

\* No run of verify_redshift_tables is in progress.
RunIdle ==
    /\ malformed = "none"
    /\ manifest = {}
    /\ metadata_dataframe = {}
    /\ metadata_deletes_dataframe = NoFile
    /\ schema_exists = TRUE
    /\ tables = {}
    /\ tables_to_verify = <<>>
    /\ tables_to_create = <<>>
    /\ tables_to_load = {}
    /\ tables_to_delete = {}
    /\ tables_dropped = {}
    /\ main = "idle"
    /\ active = FALSE
    /\ pool = NoPool
    /\ stmts = {}
    /\ errlog = {}

\* No load_full_data or delete_data call is in progress.
LoadIdle ==
    /\ table_name = ""
    /\ target = EmptyBag
    /\ updates_file = EmptyBag
    /\ deletes_file = EmptyBag
    /\ staging = EmptyBag
    /\ temp_deletes = EmptyBag
    /\ lpc = "idle"
    /\ after_first_run = [done |-> FALSE, rows |-> EmptyBag]

\* No redshift_update_table call is in progress.
VerifyIdle ==
    /\ table_columns = NoTable
    /\ table_rows = EmptyBag
    /\ temp_columns = NoTable
    /\ temp_rows = EmptyBag
    /\ new_column_names = NoTable
    /\ columns_to_drop = {}
    /\ current_column_dict = NoTable
    /\ vpc = "idle"
    /\ issued = {}
    /\ table_before = [columns |-> NoTable, rows |-> EmptyBag]
    /\ repeat = FALSE

\* No table is being created by the column mapper.
NoSql == [columns |-> NoTable, constraint |-> <<>>]

SqlIdle ==
    /\ creation_columns = NoTable
    /\ is_picklist = FALSE
    /\ column_types = NoSql
    /\ headers_str = {}
    /\ columns_added = {}
    /\ qpc = "idle"

\* The threads of the pool.
Threads == 1 .. MaxWorkers

\* create_new_redshift_tables of the sequential engine has not been called.
AppIdle ==
    /\ app_table_names = <<>>
    /\ reference_columns = <<>>
    /\ relation_alter_table_and_columns = <<>>
    /\ table_index = 0
    /\ reference_index = 0
    /\ sql_log = <<>>
    /\ apc = "idle"

\* No extract_docs job has been submitted.
DocsIdle ==
    /\ file_exists = FALSE
    /\ file_content = <<>>
    /\ original = <<>>
    /\ doc_version_ids = <<>>
    /\ exported = EmptyBag
    /\ dpc = "idle"

\* No pool uses the RedshiftConnection object.
ConnIdle ==
    /\ phase_kind = "idle"
    /\ queued = 0
    /\ work = [t \in Threads |-> <<>>]
    /\ inflight = [t \in Threads |-> "none"]
    /\ thread_local_conn = [t \in Threads |-> 0]
    /\ connected = FALSE
    /\ connections = <<>>
    /\ chain = [t \in Threads |-> {}]

\* -------------------------------------------------------------------- Init
Init ==
    /\ AppIdle
    /\ DocsIdle
    /\ malformed \in Malformations
    /\ extract_type \in {"full", "incremental"}
    /\ manifest \in Manifests
    /\ metadata_dataframe \in MetadataCatalogs
    /\ metadata_deletes_dataframe \in DeleteCatalogs
    \* metadata_deletes.csv only exists in incremental extracts
    /\ (extract_type = "full" => metadata_deletes_dataframe = NoFile)
    /\ schema_exists \in BOOLEAN
    /\ tables \in InitialTables
    /\ (~schema_exists => tables = {})
    /\ tables_to_verify = <<>>
    /\ tables_to_create = <<>>
    /\ tables_to_load = {}
    /\ tables_to_delete = {}
    /\ tables_dropped = {}
    /\ main = "read_csv"
    /\ active = FALSE
    /\ pool = NoPool
    /\ stmts = {}
    /\ errlog = {}
    /\ LoadIdle
    /\ VerifyIdle
    /\ SqlIdle
    /\ ConnIdle

\* ------------------------------------------------------ the metadata catalog
\* is_table_in_extract: table_name in [value.split('.')[-1] for value in extract]
is_table_in_extract(extracts, name) == name \in {SplitLast(e) : e \in extracts}

\* retrieve_table_columns_types_and_lengths returns {} when no catalog row has the
\* table's name after the last dot: TRUE when it returns at least one column.
HasDeclaredColumns(table) == SplitLast(table) \in {SplitLast(e) : e \in metadata_dataframe}

\* retrieve_columns_to_drop: None (here {}) unless the name is listed, else the
\* column_name values of the rows of that table.
retrieve_columns_to_drop(table) ==
    IF is_table_in_extract({r.extract : r \in metadata_deletes_dataframe.rows}, table)
    THEN {r.column_name : r \in {x \in metadata_deletes_dataframe.rows : SplitLast(x.extract) = table}}
    ELSE {}

\* add_table_config_to_list: set(tables_in_metadata) - set(table_names)
add_table_config_to_list(table_names, extracts) ==
    {SplitLast(e) : e \in extracts} \ Range(table_names)

\* The name a unit hands to the warehouse when it passes its argument on unsplit.
WarehouseName(n) == IF HasDot(n) THEN n.cat \o "." \o n.tbl ELSE n.tbl

\* ------------------------------------------------------ execute_in_threads
\* Each call has its own ThreadPoolExecutor: the threads busy in the pool of p.
Running(p) == Cardinality({i \in DOMAIN pool[p] : pool[p][i].st = "running"})

\* The order of the if-statements that fan the plans out.
PhaseAfter(p) ==
    CASE p = "planning" -> "create"
      [] p = "create" -> "verify"
      [] p = "verify" -> "delete"
      [] p = "delete" -> "load"
      [] p = "load" -> "done"

\* executor.submit(task, *args) for args in args_list
Submit(p, args) ==
    /\ pool' = [pool EXCEPT ![p] = Units(args)]
    /\ active' = TRUE
    /\ main' = p

\* A pool thread takes a queued future.
WorkerStart(p, i) ==
    /\ pool[p][i].st = "queued"
    /\ Running(p) < MaxWorkers
    /\ pool' = [pool EXCEPT ![p][i].st = "running"]
    /\ UNCHANGED <<loadVars, verifyVars, sqlVars, connVars, docsVars, appVars, malformed, extract_type, manifest, metadata_dataframe, metadata_deletes_dataframe,
                   schema_exists, tables, tables_to_verify, tables_to_create, tables_to_load,
                   tables_to_delete, tables_dropped, main, active, stmts, errlog>>

\* A fan-out that returns once its tasks are submitted, without waiting for them.
PoolDrainedNoWait == TRUE

\* The with-block and the as_completed loop: left once every future is done.
PoolDrained == \A i \in DOMAIN pool[main] : Finished(pool[main][i])

\* An as_completed loop that lets the exception of future.result() out.
future_result_reraised(p) ==
    IF \E i \in DOMAIN pool[p] : pool[p][i].st = "raised" THEN "aborted" ELSE PhaseAfter(p)

\* future.result() inside try/except: the exception of a unit is logged and the
\* loop goes on, so the caller continues after the fan-out of p.
future_result(p) == PhaseAfter(p)

\* execute_in_threads returns: each exception was logged, none re-raised.
execute_in_threads_return ==
    /\ active
    /\ PoolDrained
    /\ errlog' = errlog \cup {[phase |-> main, arg |-> pool[main][i].arg] :
                               i \in {j \in DOMAIN pool[main] : pool[main][j].st = "raised"}}
    /\ active' = FALSE
    /\ main' = future_result(main)
    /\ UNCHANGED <<loadVars, verifyVars, sqlVars, connVars, docsVars, appVars, malformed, extract_type, manifest, metadata_dataframe, metadata_deletes_dataframe,
                   schema_exists, tables, tables_to_verify, tables_to_create, tables_to_load,
                   tables_to_delete, tables_dropped, pool, stmts>>

\* ---------------------------------------------------------------- planning
\* Outcomes of redshift_update_table as the run sees them; the column-level
\* decision is not part of the run's state.
UpdateOutcomes == {"none", "rebuild", "add_column", "raise"}

UpdateStmts(t, outcome) ==
    CASE outcome = "rebuild" -> {Stmt("rebuild", t, TRUE)}
      [] outcome = "add_column" -> {Stmt("add_column", t, TRUE)}
      [] OTHER -> {}

\* The try block of verify_redshift_tables: the manifest is opened as an iterator
\* of chunks, none of which is read yet; the metadata catalog is read and its
\* extract and column_name columns are compared in the three corrections, which
\* raises KeyError for a missing column and leaves verify_redshift_tables.
read_csv ==
    /\ main = "read_csv"
    /\ main' = IF malformed = "metadata" THEN "aborted" ELSE "metadata"
    /\ UNCHANGED <<loadVars, verifyVars, sqlVars, connVars, docsVars, appVars, malformed, extract_type, manifest, metadata_dataframe,
                   metadata_deletes_dataframe, schema_exists, tables, tables_to_verify,
                   tables_to_create, tables_to_load, tables_to_delete, tables_dropped,
                   active, pool, stmts, errlog>>

\* create_or_update_metadata_table, called for a full extract before planning; an
\* exception leaves verify_redshift_tables.
create_or_update_metadata_table ==
    /\ main = "metadata"
    /\ IF extract_type # "full"
       THEN /\ main' = "planning"
            /\ UNCHANGED <<schema_exists, tables, stmts>>
       ELSE IF ~schema_exists
       THEN \* the schema is created and the table reported absent
            /\ schema_exists' = TRUE
            /\ tables' = tables \cup {"metadata"}
            /\ stmts' = stmts \cup {Stmt("create_schema", "", TRUE),
                                    Stmt("create_table", "metadata", TRUE)}
            /\ main' = "planning"
       ELSE IF "metadata" \in tables
       THEN \E outcome \in UpdateOutcomes :
            /\ stmts' = stmts \cup UpdateStmts("metadata", outcome)
            /\ main' = IF outcome = "raise" THEN "aborted" ELSE "planning"
            /\ UNCHANGED <<schema_exists, tables>>
       ELSE \E ok \in BOOLEAN :
            /\ tables' = IF ok THEN tables \cup {"metadata"} ELSE tables
            /\ stmts' = stmts \cup {Stmt("create_table", "metadata", ok)}
            /\ main' = IF ok THEN "planning" ELSE "aborted"
            /\ UNCHANGED schema_exists
    /\ UNCHANGED <<loadVars, verifyVars, sqlVars, connVars, docsVars, appVars, malformed, extract_type, manifest, metadata_dataframe, metadata_deletes_dataframe,
                   tables_to_verify, tables_to_create, tables_to_load, tables_to_delete,
                   tables_dropped, active, pool, errlog>>

\* process_chunk: one process_row per manifest row (the manifest fits one chunk).
process_chunk ==
    /\ main = "planning" /\ ~active
    /\ Submit("planning", SetToSeq(manifest))
    /\ UNCHANGED <<loadVars, verifyVars, sqlVars, connVars, docsVars, appVars, malformed, extract_type, manifest, metadata_dataframe, metadata_deletes_dataframe,
                   schema_exists, tables, tables_to_verify, tables_to_create, tables_to_load,
                   tables_to_delete, tables_dropped, stmts, errlog>>

\* process_row up to the schema query of redshift_table_exists.
\* A planner that takes up the rows with records only, whatever the run.
enters_planning_with_records(type, records) == records > 0

\* process_row: if extract_type == 'full' or record_count_not_zero
enters_planning(type, records) == type = "full" \/ records > 0

process_row_schema_query(i) ==
    LET u == pool["planning"][i]
        r == u.arg
    IN  /\ u.st = "running" /\ u.pc = 0
        /\ IF malformed = "manifest"
           THEN \* row["type"], row["records"], row["extract"] or row["file"]: KeyError
                pool' = [pool EXCEPT !["planning"][i].st = "raised"]
           ELSE IF ~enters_planning(extract_type, r.records)
           THEN pool' = [pool EXCEPT !["planning"][i].st = "returned"]
           ELSE IF extract_type = "full" /\ r.extract.tbl = "metadata"
           THEN pool' = [pool EXCEPT !["planning"][i].pc = 2]
           ELSE pool' = [pool EXCEPT !["planning"][i].pc = 1,
                                     !["planning"][i].res = schema_exists]
        /\ UNCHANGED <<loadVars, verifyVars, sqlVars, connVars, docsVars, appVars, malformed, extract_type, manifest, metadata_dataframe, metadata_deletes_dataframe,
                       schema_exists, tables, tables_to_verify, tables_to_create,
                       tables_to_load, tables_to_delete, tables_dropped, main, active,
                       stmts, errlog>>

\* redshift_table_exists after the schema query: CREATE SCHEMA and False, or the
\* table query.
redshift_table_exists(i) ==
    LET u == pool["planning"][i]
        r == u.arg
    IN  /\ u.st = "running" /\ u.pc = 1
        /\ IF u.res
           THEN /\ pool' = [pool EXCEPT !["planning"][i].pc = 2,
                                        !["planning"][i].res = (r.extract.tbl \in tables)]
                /\ UNCHANGED <<schema_exists, stmts>>
           ELSE IF schema_exists
           THEN \* another row created the schema since the query
                /\ pool' = [pool EXCEPT !["planning"][i].st = "raised"]
                /\ stmts' = stmts \cup {Stmt("create_schema", "", FALSE)}
                /\ UNCHANGED schema_exists
           ELSE /\ pool' = [pool EXCEPT !["planning"][i].pc = 2,
                                        !["planning"][i].res = FALSE]
                /\ schema_exists' = TRUE
                /\ stmts' = stmts \cup {Stmt("create_schema", "", TRUE)}
        /\ UNCHANGED <<loadVars, verifyVars, sqlVars, connVars, docsVars, appVars, malformed, extract_type, manifest, metadata_dataframe, metadata_deletes_dataframe,
                       tables, tables_to_verify, tables_to_create, tables_to_load,
                       tables_to_delete, tables_dropped, main, active, errlog>>

\* process_row under the lock: the row enters the plans.
process_row(i) ==
    LET u == pool["planning"][i]
        r == u.arg
        full_table_name == r.extract
        record_count_not_zero == r.records > 0
    IN  /\ u.st = "running" /\ u.pc = 2
        /\ pool' = [pool EXCEPT !["planning"][i].st = "returned"]
        /\ IF extract_type = "full" /\ full_table_name.tbl = "metadata"
           THEN /\ tables_to_load' = tables_to_load \cup {full_table_name}
                /\ UNCHANGED <<tables_to_verify, tables_to_create, tables_to_delete>>
           ELSE /\ tables_to_verify' =
                      IF u.res /\ record_count_not_zero
                      THEN Append(tables_to_verify, full_table_name) ELSE tables_to_verify
                /\ tables_to_create' =
                      IF ~u.res THEN Append(tables_to_create, full_table_name)
                      ELSE tables_to_create
                /\ tables_to_load' =
                      IF r.type = "updates" /\ record_count_not_zero
                      THEN tables_to_load \cup {full_table_name} ELSE tables_to_load
                /\ tables_to_delete' =
                      IF r.type = "deletes"
                      THEN tables_to_delete \cup {full_table_name} ELSE tables_to_delete
        /\ UNCHANGED <<loadVars, verifyVars, sqlVars, connVars, docsVars, appVars, malformed, extract_type, manifest, metadata_dataframe, metadata_deletes_dataframe,
                       schema_exists, tables, tables_dropped, main, active, stmts, errlog>>

\* ------------------------------------------------------------------ create
\* verify_redshift_tables: if len(all_tables_to_create) > 0, fan create_table out.
create_new_redshift_tables ==
    /\ main = "create" /\ ~active
    /\ IF tables_to_create # <<>>
       THEN Submit("create", tables_to_create)
       ELSE main' = PhaseAfter("create") /\ UNCHANGED <<pool, active>>
    /\ UNCHANGED <<loadVars, verifyVars, sqlVars, connVars, docsVars, appVars, malformed, extract_type, manifest, metadata_dataframe, metadata_deletes_dataframe,
                   schema_exists, tables, tables_to_verify, tables_to_create, tables_to_load,
                   tables_to_delete, tables_dropped, stmts, errlog>>

\* create_table: CREATE TABLE with the declared columns; it fails when the catalog
\* declares no column, when the table exists, or when the warehouse fails.
create_table(i) ==
    LET u == pool["create"][i]
        t == u.arg.tbl
    IN  /\ u.st = "running"
        /\ \E conn \in BOOLEAN :
             LET ok == conn /\ HasDeclaredColumns(u.arg) /\ t \notin tables
             IN  /\ tables' = IF ok THEN tables \cup {t} ELSE tables
                 /\ stmts' = stmts \cup {Stmt("create_table", t, ok)}
                 /\ pool' = [pool EXCEPT !["create"][i].st =
                                IF ok THEN "returned" ELSE "raised"]
        /\ UNCHANGED <<loadVars, verifyVars, sqlVars, connVars, docsVars, appVars, malformed, extract_type, manifest, metadata_dataframe, metadata_deletes_dataframe,
                       schema_exists, tables_to_verify, tables_to_create, tables_to_load,
                       tables_to_delete, tables_dropped, main, active, errlog>>

\* ------------------------------------------------------------------ verify
\* The tables drop_table_for_deleted_objects drops: the extracts of the
\* delete-metadata rows whose column_name is id.
RetiredExtracts == {r.extract : r \in {x \in metadata_deletes_dataframe.rows : x.column_name = "id"}}

\* table_names after the two add_table_config_to_list extensions.
ExtendedTableNames ==
    LET first == IF MetadataName \in Range(tables_to_verify)
                 THEN tables_to_verify
                      \o SetToSeq(add_table_config_to_list(tables_to_verify, metadata_dataframe))
                 ELSE tables_to_verify
    IN  IF MetadataDeletesName \in Range(first)
        THEN first \o SetToSeq(add_table_config_to_list(
                          first, {r.extract : r \in metadata_deletes_dataframe.rows}))
        ELSE first

\* verify_and_update_existing_tables up to its fan-out: the retired tables are
\* dropped one after the other in the main thread (a failing DROP TABLE leaves
\* verify_redshift_tables), then table_names is extended and update_table_logic
\* fanned out.
verify_and_update_existing_tables ==
    /\ main = "verify" /\ ~active
    /\ IF tables_to_verify = <<>>
       THEN /\ main' = PhaseAfter("verify")
            /\ UNCHANGED <<pool, active, tables, tables_dropped, tables_to_verify, stmts>>
       ELSE IF ~metadata_deletes_dataframe.present
       THEN /\ Submit("verify", ExtendedTableNames)
            /\ tables_to_verify' = ExtendedTableNames
            /\ UNCHANGED <<tables, tables_dropped, stmts>>
       ELSE \E dropped \in SUBSET RetiredExtracts :
            /\ \A e \in dropped : e.tbl \in tables
            /\ tables' = tables \ {e.tbl : e \in dropped}
            /\ IF dropped = RetiredExtracts
               THEN /\ stmts' = stmts \cup {Stmt("drop_table", e.tbl, TRUE) : e \in dropped}
                    /\ tables_dropped' = dropped
                    /\ Submit("verify", ExtendedTableNames)
                    /\ tables_to_verify' = ExtendedTableNames
               ELSE \E f \in RetiredExtracts \ dropped :
                    /\ stmts' = stmts \cup {Stmt("drop_table", e.tbl, TRUE) : e \in dropped}
                                      \cup {Stmt("drop_table", f.tbl, FALSE)}
                    /\ main' = "aborted"
                    /\ UNCHANGED <<pool, active, tables_dropped, tables_to_verify>>
    /\ UNCHANGED <<loadVars, verifyVars, sqlVars, connVars, docsVars, appVars, malformed, extract_type, manifest, metadata_dataframe, metadata_deletes_dataframe,
                   schema_exists, tables_to_create, tables_to_load, tables_to_delete, errlog>>

\* update_table_logic: the declared columns and the columns to drop of the table,
\* then redshift_update_table when either is non-empty. Of redshift_update_table
\* the run sees the DROP COLUMN statement (issued when columns_to_drop is
\* non-empty) and the outcome of the column comparison.
update_table_logic(i) ==
    LET u == pool["verify"][i]
        table == u.arg
        t == WarehouseName(table)
        has_columns_to_add == is_table_in_extract(metadata_dataframe, table)
        columns_to_remove ==
            IF metadata_deletes_dataframe.present /\ table \notin tables_dropped
            THEN retrieve_columns_to_drop(table) ELSE {}
    IN  /\ u.st = "running"
        /\ IF columns_to_remove = {} /\ ~has_columns_to_add
           THEN /\ pool' = [pool EXCEPT !["verify"][i].st = "returned"]
                /\ UNCHANGED stmts
           ELSE \E dropok \in BOOLEAN, outcome \in UpdateOutcomes :
                LET drop_failed == columns_to_remove # {} /\ ~(dropok /\ t \in tables)
                    drop_stmts == IF columns_to_remove # {}
                                  THEN {Stmt("drop_column", t, ~drop_failed)} ELSE {}
                IN  IF drop_failed
                    THEN /\ stmts' = stmts \cup drop_stmts
                         /\ pool' = [pool EXCEPT !["verify"][i].st = "raised"]
                    ELSE IF t \notin tables
                    THEN \* no current column: every declared column is added
                         /\ stmts' = stmts \cup {Stmt("add_column", t, FALSE)}
                         /\ pool' = [pool EXCEPT !["verify"][i].st = "raised"]
                    ELSE IF ~has_columns_to_add
                    THEN /\ stmts' = stmts \cup drop_stmts
                         /\ pool' = [pool EXCEPT !["verify"][i].st = "returned"]
                    ELSE /\ stmts' = stmts \cup drop_stmts \cup UpdateStmts(t, outcome)
                         /\ pool' = [pool EXCEPT !["verify"][i].st =
                                        IF outcome = "raise" THEN "raised" ELSE "returned"]
        /\ UNCHANGED <<loadVars, verifyVars, sqlVars, connVars, docsVars, appVars, malformed, extract_type, manifest, metadata_dataframe, metadata_deletes_dataframe,
                       schema_exists, tables, tables_to_verify, tables_to_create,
                       tables_to_load, tables_to_delete, tables_dropped, main, active, errlog>>

\* ------------------------------------------------------------------ delete
delete_data_from_redshift_table ==
    /\ main = "delete" /\ ~active
    /\ IF tables_to_delete # {}
       THEN Submit("delete", SetToSeq(tables_to_delete))
       ELSE main' = PhaseAfter("delete") /\ UNCHANGED <<pool, active>>
    /\ UNCHANGED <<loadVars, verifyVars, sqlVars, connVars, docsVars, appVars, malformed, extract_type, manifest, metadata_dataframe, metadata_deletes_dataframe,
                   schema_exists, tables, tables_to_verify, tables_to_create, tables_to_load,
                   tables_to_delete, tables_dropped, stmts, errlog>>

\* An existence check that finds every table.
table_exists_assumed(t) == TRUE

\* redshift_table_exists on an existing schema: the result of the
\* information_schema.tables query.
table_exists_query_execution(t) == schema_exists /\ t \in tables

\* delete_data_logic: delete_data when redshift_table_exists, nothing otherwise.
delete_data_logic(i) ==
    LET u == pool["delete"][i]
        t == u.arg.tbl
    IN  /\ u.st = "running"
        /\ IF table_exists_query_execution(t)
           THEN \E ok \in BOOLEAN :
                /\ stmts' = stmts \cup {Stmt("delete_rows", t, ok)}
                /\ pool' = [pool EXCEPT !["delete"][i].st =
                               IF ok THEN "returned" ELSE "raised"]
           ELSE /\ pool' = [pool EXCEPT !["delete"][i].st = "returned"]
                /\ UNCHANGED stmts
        /\ UNCHANGED <<loadVars, verifyVars, sqlVars, connVars, docsVars, appVars, malformed, extract_type, manifest, metadata_dataframe, metadata_deletes_dataframe,
                       schema_exists, tables, tables_to_verify, tables_to_create,
                       tables_to_load, tables_to_delete, tables_dropped, main, active, errlog>>

\* -------------------------------------------------------------------- load
load_data_into_redshift ==
    /\ main = "load" /\ ~active
    /\ IF tables_to_load # {}
       THEN Submit("load", SetToSeq(tables_to_load))
       ELSE main' = PhaseAfter("load") /\ UNCHANGED <<pool, active>>
    /\ UNCHANGED <<loadVars, verifyVars, sqlVars, connVars, docsVars, appVars, malformed, extract_type, manifest, metadata_dataframe, metadata_deletes_dataframe,
                   schema_exists, tables, tables_to_verify, tables_to_create, tables_to_load,
                   tables_to_delete, tables_dropped, stmts, errlog>>

\* load_table_data: load_full_data issues its COPY; it fails when the table is
\* missing or the warehouse fails.
load_table_data(i) ==
    LET u == pool["load"][i]
        t == u.arg.tbl
    IN  /\ u.st = "running"
        /\ \E conn \in BOOLEAN :
             LET ok == conn /\ t \in tables
             IN  /\ stmts' = stmts \cup {Stmt("copy", t, ok)}
                 /\ pool' = [pool EXCEPT !["load"][i].st =
                                IF ok THEN "returned" ELSE "raised"]
        /\ UNCHANGED <<loadVars, verifyVars, sqlVars, connVars, docsVars, appVars, malformed, extract_type, manifest, metadata_dataframe, metadata_deletes_dataframe,
                       schema_exists, tables, tables_to_verify, tables_to_create,
                       tables_to_load, tables_to_delete, tables_dropped, main, active, errlog>>

Next ==
    \/ read_csv
    \/ create_or_update_metadata_table
    \/ process_chunk
    \/ \E p \in Phases : \E i \in DOMAIN pool[p] : WorkerStart(p, i)
    \/ \E i \in DOMAIN pool["planning"] : process_row_schema_query(i)
    \/ \E i \in DOMAIN pool["planning"] : redshift_table_exists(i)
    \/ \E i \in DOMAIN pool["planning"] : process_row(i)
    \/ create_new_redshift_tables
    \/ \E i \in DOMAIN pool["create"] : create_table(i)
    \/ verify_and_update_existing_tables
    \/ \E i \in DOMAIN pool["verify"] : update_table_logic(i)
    \/ delete_data_from_redshift_table
    \/ \E i \in DOMAIN pool["delete"] : delete_data_logic(i)
    \/ load_data_into_redshift
    \/ \E i \in DOMAIN pool["load"] : load_table_data(i)
    \/ execute_in_threads_return

Spec == Init /\ [][Next]_vars

\* ================================================================= SpecLoad
\* The tables of the load model: an object table and the two tables with a
\* composite key.
LoadTables == {"product__v", "metadata", "picklist__sys"}

\* primary_keys of load_full_data, the key columns of delete_data.
primary_keys(t) ==
    CASE t = "metadata" -> <<"extract", "column_name">>
      [] t = "picklist__sys" -> <<"object", "object_field", "picklist_value_name">>
      [] OTHER -> <<"id">>

\* One column besides the key stands for the other columns of the table.
ValueColumn(t) ==
    CASE t = "metadata" -> "type"
      [] t = "picklist__sys" -> "picklist_value_label"
      [] OTHER -> "name__v"

\* The values of a CSV cell.
CellValues(c) ==
    IF c \in {"type", "picklist_value_label", "name__v"} THEN {"x", "y"}
    ELSE IF c = "picklist_value_name" THEN {"a"}
    ELSE {"a", "aa"}

\* The rows a CSV file with the columns cols can hold.
FileRows(cols) ==
    {r \in [cols -> {"a", "aa", "x", "y"}] : \A c \in cols : r[c] \in CellValues(c)}

UpdateRows(t) == FileRows(Range(primary_keys(t)) \cup {ValueColumn(t)})
DeleteKeyRows(t) == FileRows(Range(primary_keys(t)))

\* pk_condition: target.col = staging.col for every primary key column.
pk_condition(t, r, s) == \A i \in DOMAIN primary_keys(t) : r[primary_keys(t)[i]] = s[primary_keys(t)[i]]

\* column_names of delete_data applied to a row: col1 || col2 || ...
RECURSIVE ConcatColumns(_, _)
ConcatColumns(r, cols) ==
    IF cols = <<>> THEN "" ELSE r[Head(cols)] \o ConcatColumns(r, Tail(cols))

column_names(t, r) == ConcatColumns(r, primary_keys(t))

NotRerun == [done |-> FALSE, rows |-> EmptyBag]

InitLoad ==
    /\ AppIdle
    /\ DocsIdle
    /\ RunIdle
    /\ VerifyIdle
    /\ SqlIdle
    /\ ConnIdle
    /\ table_name \in LoadTables
    /\ target \in BagsOf(UpdateRows(table_name), MaxTableRows)
    /\ lpc \in {"load", "delete"}
    /\ IF lpc = "load"
       THEN /\ extract_type \in {"full", "incremental"}
            /\ updates_file \in BagsOf(UpdateRows(table_name), MaxFileRows)
            /\ deletes_file = EmptyBag
       ELSE /\ extract_type = "incremental"
            /\ updates_file = EmptyBag
            /\ deletes_file \in BagsOf(DeleteKeyRows(table_name), MaxFileRows)
    /\ staging = EmptyBag
    /\ temp_deletes = EmptyBag
    /\ after_first_run = NotRerun

\* load_full_data, first statement: COPY into the table (full), or CREATE TEMP
\* TABLE staging (LIKE table) and COPY into it (incremental).
load_full_data_copy ==
    /\ lpc = "load"
    /\ IF extract_type = "full"
       THEN /\ target' = target (+) updates_file
            /\ lpc' = "loaded"
            /\ UNCHANGED staging
       ELSE /\ staging' = updates_file
            /\ lpc' = "staged"
            /\ UNCHANGED target
    /\ UNCHANGED <<runVars, verifyVars, sqlVars, connVars, docsVars, appVars, after_first_run, table_name, updates_file, deletes_file, temp_deletes>>

\* DELETE FROM table USING staging WHERE pk_condition
load_full_data_delete_duplicates ==
    /\ lpc = "staged"
    /\ target' = BagRestrict(target,
                    {r \in DOMAIN target :
                        ~\E s \in BagToSet(staging) : pk_condition(table_name, r, s)})
    /\ lpc' = "deduplicated"
    /\ UNCHANGED <<runVars, verifyVars, sqlVars, connVars, docsVars, appVars, after_first_run, table_name, updates_file, deletes_file, staging,
                   temp_deletes>>

\* INSERT INTO table SELECT DISTINCT * FROM staging; the connection is closed and
\* the staging table goes with it.
load_full_data_insert ==
    /\ lpc = "deduplicated"
    /\ target' = target (+) SetToBag(BagToSet(staging))
    /\ staging' = EmptyBag
    /\ lpc' = "loaded"
    /\ UNCHANGED <<runVars, verifyVars, sqlVars, connVars, docsVars, appVars, after_first_run, table_name, updates_file, deletes_file, temp_deletes>>

\* CREATE TEMPORARY TABLE temp_<table>_deletes
delete_data_create_temp ==
    /\ lpc = "delete"
    /\ temp_deletes' = EmptyBag
    /\ lpc' = "temp_created"
    /\ UNCHANGED <<runVars, verifyVars, sqlVars, connVars, docsVars, appVars, after_first_run, table_name, target, updates_file, deletes_file, staging>>

\* COPY temp_<table>_deletes FROM the deletes file
delete_data_copy ==
    /\ lpc = "temp_created"
    /\ temp_deletes' = deletes_file
    /\ lpc' = "temp_copied"
    /\ UNCHANGED <<runVars, verifyVars, sqlVars, connVars, docsVars, appVars, after_first_run, table_name, target, updates_file, deletes_file, staging>>

\* DELETE FROM table WHERE column_names IN (SELECT column_names FROM temp); the
\* connection is closed and the temporary table goes with it.
delete_data_delete ==
    /\ lpc = "temp_copied"
    /\ target' = BagRestrict(target,
                    {r \in DOMAIN target :
                        column_names(table_name, r) \notin
                            {column_names(table_name, d) : d \in BagToSet(temp_deletes)}})
    /\ temp_deletes' = EmptyBag
    /\ lpc' = "deleted"
    /\ UNCHANGED <<runVars, verifyVars, sqlVars, connVars, docsVars, appVars, after_first_run, table_name, updates_file, deletes_file, staging>>

\* The caller retries the whole run with the same staged files: the table is
\* loaded, or deleted from, a second time.
rerun ==
    /\ lpc \in {"loaded", "deleted"}
    /\ ~after_first_run.done
    /\ after_first_run' = [done |-> TRUE, rows |-> target]
    /\ lpc' = IF lpc = "loaded" THEN "load" ELSE "delete"
    /\ UNCHANGED <<runVars, verifyVars, sqlVars, connVars, docsVars, appVars, table_name, target, updates_file, deletes_file,
                   staging, temp_deletes>>

NextLoad ==
    \/ rerun
    \/ load_full_data_copy
    \/ load_full_data_delete_duplicates
    \/ load_full_data_insert
    \/ delete_data_create_temp
    \/ delete_data_copy
    \/ delete_data_delete

SpecLoad == InitLoad /\ [][NextLoad]_vars

\* =============================================================== SpecVerify
\* create_sql_str: lengths above this are not doubled ...
LengthThreshold == 32000
\* ... but set to this width, which is also the width of a column without length.
MaxVarchar == 64000

\* A length cell: empty (None, "", NaN) or one integer.
Blank == <<>>
Length(n) == <<n>>

\* A NULL cell, and the cell of column c in the CSV row k.
Null == <<>>
Cell(c, k) == <<c, k>>

\* The columns of the table of the verify model and what the metadata catalog
\* can declare for them (the type is lower-cased as by data_type.lower()).
VerifyColumns == {"id", "name__v", "region__c"}
DeclaredType(c) == IF c = "id" THEN "id" ELSE "string"
DeclaredLengths(c) ==
    CASE c = "id" -> {Blank}
      [] c = "name__v" -> {Length(20000), Length(40000)}
      [] OTHER -> {Length(16000), Length(20000)}

\* retrieve_table_columns_types_and_lengths: column -> (type, length) for the
\* catalog rows of the table; empty when the catalog has no row for it.
Catalogs ==
    UNION {{cat \in [S -> [type : {"id", "string"},
                            length : {Blank, Length(16000), Length(20000), Length(40000)}]] :
               \A c \in S : /\ cat[c].type = DeclaredType(c)
                            /\ cat[c].length \in DeclaredLengths(c)} : S \in SUBSET VerifyColumns}

\* retrieve_columns_to_drop: the columns the delete-metadata catalog lists.
DropSets == {{}, {"name__v"}, {"region__c"}}

\* A width rule that stops at the threshold.
SqlLengthCapped(l) ==
    IF l = Blank THEN MaxVarchar
    ELSE IF l[1] > LengthThreshold THEN LengthThreshold ELSE 2 * l[1]

\* A width rule that doubles every length up to the maximum width.
SqlLengthLateCap(l) ==
    IF l = Blank THEN MaxVarchar
    ELSE IF l[1] > MaxVarchar THEN MaxVarchar ELSE 2 * l[1]

\* The width rule of create_sql_str and redshift_add_columns_to_table.
SqlLength(l) ==
    IF l = Blank THEN MaxVarchar
    ELSE IF l[1] > LengthThreshold THEN MaxVarchar ELSE 2 * l[1]

Varchar(n, pk) == [data_type |-> "character varying", length |-> Length(n), pk |-> pk]
Unsized(t, pk) == [data_type |-> t, length |-> Blank, pk |-> pk]

\* str.lower() on the names and types of the model.
Lower(str) ==
    CASE str = "ID" -> "id"
      [] str = "String" -> "string"
      [] str = "DateTime" -> "datetime"
      [] OTHER -> str

\* The names of the model whose first character is a digit.
DigitNames == {"1st__c"}

\* A rewrite that also prefixes a name it has prefixed before.
update_table_name_prefixed_again(name) ==
    IF name \in DigitNames \cup {"n_" \o d : d \in DigitNames} THEN "n_" \o name ELSE name

\* update_table_name_that_starts_with_digit
update_table_name_that_starts_with_digit(name) ==
    IF name \in DigitNames THEN "n_" \o name ELSE name

\* create_sql_str: the else branch widens a string column whose doubled
\* length is 2 (icon fields).
IconCase(data_type, length) ==
    Lower(data_type) = "string" /\ SqlLength(length) = 2

\* A mapper that compares the declared type as it is written.
ColumnSqlCaseSensitive(name, declared_type, length) ==
    LET data_type_length == SqlLength(length)
        k == update_table_name_that_starts_with_digit(name)
    IN  IF declared_type = "id" \/ (Lower(k) = "id" /\ declared_type = "string")
        THEN Varchar(data_type_length, TRUE)
        ELSE IF declared_type \in {"datetime", "timestamp with time zone"}
        THEN Unsized("timestamp with time zone", FALSE)
        ELSE IF declared_type = "boolean" THEN Unsized("boolean", FALSE)
        ELSE IF declared_type \in {"number", "numeric"} THEN Unsized("numeric", Lower(k) = "id")
        ELSE IF declared_type = "date" THEN Unsized("date", FALSE)
        ELSE IF IconCase(declared_type, length)
        THEN Varchar(MaxVarchar, FALSE)
        ELSE Varchar(data_type_length, FALSE)

\* create_sql_str, one column name with the declared (type, length).
ColumnSql(name, declared_type, length) ==
    LET data_type == Lower(declared_type)
        data_type_length == SqlLength(length)
        k == update_table_name_that_starts_with_digit(name)
    IN  IF data_type = "id" \/ (Lower(k) = "id" /\ data_type = "string")
        THEN Varchar(data_type_length, TRUE)
        ELSE IF data_type \in {"datetime", "timestamp with time zone"}
        THEN Unsized("timestamp with time zone", FALSE)
        ELSE IF data_type = "boolean" THEN Unsized("boolean", FALSE)
        ELSE IF data_type \in {"number", "numeric"} THEN Unsized("numeric", Lower(k) = "id")
        ELSE IF data_type = "date" THEN Unsized("date", FALSE)
        ELSE IF IconCase(declared_type, length)
        THEN Varchar(MaxVarchar, FALSE)
        ELSE Varchar(data_type_length, FALSE)

\* The constraint create_sql_str appends for the picklist table.
PicklistPrimaryKey == <<"object", "object_field", "picklist_value_name">>

\* create_sql_str: the columns under the names they are created with, and the
\* table constraint.
create_sql_str(fields_dict, picklist) ==
    [columns |->
        [k \in {update_table_name_that_starts_with_digit(c) : c \in DOMAIN fields_dict} |->
            LET c == CHOOSE d \in DOMAIN fields_dict :
                         update_table_name_that_starts_with_digit(d) = k
            IN  ColumnSql(c, fields_dict[c].type, fields_dict[c].length)],
     constraint |-> IF picklist THEN PicklistPrimaryKey ELSE <<>>]

\* redshift_add_columns_to_table, one column with the declared (type, length).
AddColumnSql(column, declared_type, length) ==
    LET data_type == Lower(declared_type)
        len == SqlLength(length)
        k == update_table_name_that_starts_with_digit(column)
    IN  IF data_type = "id" \/ (Lower(k) = "id" /\ data_type = "string")
        THEN Varchar(len, TRUE)
        ELSE IF data_type = "datetime" THEN Unsized("timestamp with time zone", FALSE)
        ELSE IF data_type = "boolean" THEN Unsized("boolean", FALSE)
        ELSE IF data_type = "number" THEN Unsized("numeric", FALSE)
        ELSE IF data_type = "date" THEN Unsized("date", FALSE)
        ELSE Varchar(len, FALSE)

\* get_db_column_names: column -> (data_type, character_maximum_length or NaN)
get_db_column_names(cols) ==
    [c \in DOMAIN cols |-> [type |-> cols[c].data_type, length |-> cols[c].length]]

\* The rows of bag b without the columns outside keep (DROP COLUMN).
ProjectRows(b, keep) ==
    LET Cut(r) == [c \in DOMAIN r \cap keep |-> r[c]]
        image == {Cut(r) : r \in DOMAIN b}
    IN  [p \in image |-> BagCardinality(BagRestrict(b, {r \in DOMAIN b : Cut(r) = p}))]

\* INSERT INTO t(names) SELECT names FROM b, t having the columns cols: a column
\* of t that is not named is NULL. ADD COLUMN is the case names = the old columns.
InsertSelect(b, names, cols) ==
    LET Put(r) == [c \in cols |-> IF c \in names /\ c \in DOMAIN r THEN r[c] ELSE Null]
        image == {Put(r) : r \in DOMAIN b}
    IN  [p \in image |-> BagCardinality(BagRestrict(b, {r \in DOMAIN b : Put(r) = p}))]

\* The statement log entry of a schema statement on the columns cols.
Issue(op, cols) == [op |-> op, cols |-> cols]

NoSnapshot == [columns |-> NoTable, rows |-> EmptyBag]

InitVerify ==
    /\ AppIdle
    /\ DocsIdle
    /\ RunIdle
    /\ extract_type = "incremental"
    /\ LoadIdle
    /\ SqlIdle
    /\ ConnIdle
    /\ table_columns = NoTable
    /\ table_rows = EmptyBag
    /\ temp_columns = NoTable
    /\ temp_rows = EmptyBag
    /\ new_column_names \in Catalogs
    /\ columns_to_drop = {}
    /\ current_column_dict = NoTable
    /\ vpc = "create"
    /\ issued = {}
    /\ table_before = NoSnapshot
    /\ repeat = FALSE

\* create_table: CREATE TABLE with create_sql_str of the declared columns; a
\* table without declared column is CREATE TABLE t (), which the warehouse rejects.
create_redshift_table ==
    /\ vpc = "create"
    /\ IF DOMAIN new_column_names = {}
       THEN /\ vpc' = "raised"
            /\ UNCHANGED table_columns
       ELSE /\ table_columns' = create_sql_str(new_column_names, FALSE).columns
            /\ vpc' = "returned"
    /\ issued' = {Issue("create_table", DOMAIN new_column_names)}
    /\ UNCHANGED <<runVars, loadVars, sqlVars, connVars, docsVars, appVars, table_rows, temp_columns, temp_rows, new_column_names,
                   columns_to_drop, current_column_dict, table_before, repeat>>

\* The load phase of the run copies the next CSV row into the table; the table
\* is no longer the one the verify phase left.
copy_rows ==
    /\ vpc \in {"returned", "raised"}
    /\ DOMAIN table_columns # {}
    /\ BagCardinality(table_rows) < MaxTableRows
    /\ \E k \in {BagCardinality(table_rows) + 1} :
         table_rows' = table_rows (+) SetToBag({[c \in DOMAIN table_columns |-> Cell(c, k)]})
    /\ table_before' = NoSnapshot
    /\ UNCHANGED <<runVars, loadVars, sqlVars, connVars, docsVars, appVars, table_columns, temp_columns, temp_rows, new_column_names,
                   columns_to_drop, current_column_dict, vpc, issued, repeat>>

\* update_table_logic of the next run: the catalogs of that run give
\* columns_to_add and columns_to_remove; redshift_update_table is called when
\* one of them is not empty. The run that follows a rebuild which left
\* <table>_temp behind is followed as the retry of the run that failed, with the
\* catalogs of that run.
update_table_logic_call ==
    /\ vpc \in {"returned", "raised"}
    /\ DOMAIN table_columns # {}
    /\ \E cat \in Catalogs, drop \in DropSets :
         /\ temp_columns # NoTable => (cat = new_column_names /\ drop = columns_to_drop)
         /\ new_column_names' = cat
         /\ columns_to_drop' = drop
         /\ repeat' = (/\ vpc = "returned"
                       /\ \A x \in issued : x.op # "create_table"
                       /\ cat = new_column_names
                       /\ drop = columns_to_drop)
         /\ vpc' = IF DOMAIN cat = {} /\ drop = {} THEN "returned" ELSE "drop"
    /\ issued' = {}
    /\ table_before' = NoSnapshot
    /\ current_column_dict' = NoTable
    /\ UNCHANGED <<runVars, loadVars, sqlVars, connVars, docsVars, appVars, table_columns, table_rows, temp_columns, temp_rows>>

\* A call that takes up the column drops again once the rebuilt table is in place.
next_position_drops_last(p) ==
    CASE p = "drop" -> "fetch"
      [] p = "fetch" -> "compare"
      [] p = "create_temp" -> "insert_temp"
      [] p = "insert_temp" -> "drop_table"
      [] p = "drop_table" -> "rename"
      [] p = "rename" -> "drop"

\* The statement order of redshift_update_table and update_column_lengths: the
\* column drops, the fetch of the columns, the comparison; in a rebuild CREATE
\* TABLE, INSERT, DROP TABLE, RENAME, after which the call returns.
next_position(p) ==
    CASE p = "drop" -> "fetch"
      [] p = "fetch" -> "compare"
      [] p = "create_temp" -> "insert_temp"
      [] p = "insert_temp" -> "drop_table"
      [] p = "drop_table" -> "rename"
      [] p = "rename" -> "returned"

\* redshift_drop_columns_from_table: one ALTER TABLE ... DROP COLUMN per column in
\* one query; it fails for a column the table lacks and for the last column.
redshift_drop_columns_from_table ==
    /\ vpc = "drop"
    /\ IF columns_to_drop = {}
       THEN /\ vpc' = next_position("drop")
            /\ UNCHANGED <<table_columns, table_rows, issued>>
       ELSE /\ issued' = issued \cup {Issue("drop_column", columns_to_drop)}
            /\ IF columns_to_drop \subseteq DOMAIN table_columns
                  /\ columns_to_drop # DOMAIN table_columns
               THEN /\ table_columns' = [c \in DOMAIN table_columns \ columns_to_drop |->
                                            table_columns[c]]
                    /\ table_rows' = ProjectRows(table_rows, DOMAIN table_columns \ columns_to_drop)
                    /\ vpc' = next_position("drop")
               ELSE /\ vpc' = "raised"
                    /\ UNCHANGED <<table_columns, table_rows>>
    /\ UNCHANGED <<runVars, loadVars, sqlVars, connVars, docsVars, appVars, temp_columns, temp_rows, new_column_names,
                   columns_to_drop, current_column_dict, table_before, repeat>>

\* current_column_dict = get_db_column_names(query)
redshift_update_table_fetch ==
    /\ vpc = "fetch"
    /\ current_column_dict' = get_db_column_names(table_columns)
    /\ table_before' = [columns |-> table_columns, rows |-> table_rows]
    /\ vpc' = next_position("fetch")
    /\ UNCHANGED <<runVars, loadVars, sqlVars, connVars, docsVars, appVars, table_columns, table_rows, temp_columns, temp_rows,
                   new_column_names, columns_to_drop, issued, repeat>>

\* The loop body of redshift_update_table for a declared column the table has:
\* both lengths are integers and the current length is below twice the new one.
LengthHasChanged(c) ==
    /\ current_column_dict[c].length # Blank
    /\ new_column_names[c].length # Blank
    /\ current_column_dict[c].length[1] < 2 * new_column_names[c].length[1]

\* redshift_update_table after the fetch: the loop over the declared columns
\* (current_column_dict[new_column] raises KeyError for a column the table
\* lacks), or the added columns when no declared column is in the table.
redshift_update_table ==
    LET current_columns == DOMAIN current_column_dict
        new_columns == DOMAIN new_column_names
        added_columns == new_columns \ current_columns
    IN  /\ vpc = "compare"
        /\ IF current_columns = new_columns \/ current_columns \cap new_columns # {}
           THEN IF ~(new_columns \subseteq current_columns)
                THEN /\ vpc' = "raised"
                     /\ UNCHANGED current_column_dict
                ELSE IF \E c \in new_columns : LengthHasChanged(c)
                THEN /\ current_column_dict' =
                          [c \in current_columns |->
                              IF c \in new_columns /\ LengthHasChanged(c)
                              THEN [type |-> current_column_dict[c].type,
                                    length |-> Length(2 * new_column_names[c].length[1])]
                              ELSE current_column_dict[c]]
                     /\ vpc' = "create_temp"
                ELSE /\ vpc' = "returned"
                     /\ UNCHANGED current_column_dict
           ELSE /\ vpc' = IF added_columns # {} THEN "add" ELSE "returned"
                /\ UNCHANGED current_column_dict
        /\ UNCHANGED <<runVars, loadVars, sqlVars, connVars, docsVars, appVars, table_columns, table_rows, temp_columns, temp_rows,
                       new_column_names, columns_to_drop, issued, table_before, repeat>>

\* The column list of a rebuild that names the declared columns only.
InsertColumnNamesDeclared == DOMAIN new_column_names

\* update_column_lengths is called with ', '.join(current_column_dict.keys()).
InsertColumnNames == DOMAIN current_column_dict

\* update_column_lengths: CREATE TABLE <table>_temp (create_sql_str(current_column_dict)).
\* Each of the four statements is a run_query of its own, committed on success;
\* a statement that fails raises out of redshift_update_table with the earlier
\* statements in effect. CREATE TABLE fails when <table>_temp exists.
update_column_lengths_create ==
    /\ vpc = "create_temp"
    /\ \E ok \in BOOLEAN :
         /\ temp_columns # NoTable => ~ok
         /\ IF ok
            THEN /\ temp_columns' = create_sql_str(current_column_dict, FALSE).columns
                 /\ temp_rows' = EmptyBag
                 /\ vpc' = next_position("create_temp")
            ELSE /\ vpc' = "raised"
                 /\ UNCHANGED <<temp_columns, temp_rows>>
    /\ issued' = issued \cup {Issue("rebuild", DOMAIN current_column_dict)}
    /\ UNCHANGED <<runVars, loadVars, sqlVars, connVars, docsVars, appVars, table_columns, table_rows, new_column_names,
                   columns_to_drop, current_column_dict, table_before, repeat>>

\* INSERT INTO <table>_temp(column_names) SELECT column_names FROM <table>
update_column_lengths_insert ==
    /\ vpc = "insert_temp"
    /\ \E ok \in BOOLEAN :
         IF ok
         THEN /\ temp_rows' = InsertSelect(table_rows, InsertColumnNames, DOMAIN temp_columns)
              /\ vpc' = next_position("insert_temp")
         ELSE /\ vpc' = "raised"
              /\ UNCHANGED temp_rows
    /\ UNCHANGED <<runVars, loadVars, sqlVars, connVars, docsVars, appVars, table_columns, table_rows, temp_columns,
                   new_column_names, columns_to_drop, current_column_dict, issued,
                   table_before, repeat>>

\* DROP TABLE <table>
update_column_lengths_drop ==
    /\ vpc = "drop_table"
    /\ \E ok \in BOOLEAN :
         IF ok
         THEN /\ table_columns' = NoTable
              /\ table_rows' = EmptyBag
              /\ vpc' = next_position("drop_table")
         ELSE /\ vpc' = "raised"
              /\ UNCHANGED <<table_columns, table_rows>>
    /\ UNCHANGED <<runVars, loadVars, sqlVars, connVars, docsVars, appVars, temp_columns, temp_rows, new_column_names,
                   columns_to_drop, current_column_dict, issued, table_before, repeat>>

\* ALTER TABLE <table>_temp RENAME TO <table>
update_column_lengths_rename ==
    /\ vpc = "rename"
    /\ \E ok \in BOOLEAN :
         IF ok
         THEN /\ table_columns' = temp_columns
              /\ table_rows' = temp_rows
              /\ temp_columns' = NoTable
              /\ temp_rows' = EmptyBag
              /\ vpc' = next_position("rename")
         ELSE /\ vpc' = "raised"
              /\ UNCHANGED <<table_columns, table_rows, temp_columns, temp_rows>>
    /\ UNCHANGED <<runVars, loadVars, sqlVars, connVars, docsVars, appVars, new_column_names, columns_to_drop,
                   current_column_dict, issued, table_before, repeat>>

\* redshift_add_columns_to_table: one ALTER TABLE with an ADD COLUMN clause per
\* added column, the clauses separated by ", ,": the statement is well formed for
\* one added column only. Whether the warehouse accepts PRIMARY KEY in the clause
\* is not decided by the code.
redshift_add_columns_to_table ==
    LET added_columns == DOMAIN new_column_names \ DOMAIN current_column_dict
        new_sql == [c \in added_columns |->
                       AddColumnSql(c, new_column_names[c].type, new_column_names[c].length)]
    IN  /\ vpc = "add"
        /\ issued' = issued \cup {Issue("add_column", added_columns)}
        /\ \E accepted \in BOOLEAN :
             /\ (\A c \in added_columns : ~new_sql[c].pk) => accepted
             /\ IF Cardinality(added_columns) = 1 /\ accepted
                THEN /\ table_columns' = table_columns @@ new_sql
                     /\ table_rows' = InsertSelect(table_rows, DOMAIN table_columns,
                                                   DOMAIN table_columns \cup added_columns)
                     /\ vpc' = "returned"
                ELSE /\ vpc' = "raised"
                     /\ UNCHANGED <<table_columns, table_rows>>
        /\ UNCHANGED <<runVars, loadVars, sqlVars, connVars, docsVars, appVars, temp_columns, temp_rows, new_column_names,
                       columns_to_drop, current_column_dict, table_before, repeat>>

NextVerify ==
    \/ create_redshift_table
    \/ copy_rows
    \/ update_table_logic_call
    \/ redshift_drop_columns_from_table
    \/ redshift_update_table_fetch
    \/ redshift_update_table
    \/ update_column_lengths_create
    \/ update_column_lengths_insert
    \/ update_column_lengths_drop
    \/ update_column_lengths_rename
    \/ redshift_add_columns_to_table

SpecVerify == InitVerify /\ [][NextVerify]_vars

\* ================================================================== SpecSql
\* The column mapper on the declared columns of one table: the table is created
\* (create_table), its updates file is loaded (the column list of COPY), and a
\* later run verifies it against the same catalog.
SqlColumns == {"id", "name__v", "1st__c"}

\* The declared types as the catalog writes them, and the lengths it declares
\* for the types that carry one.
SizedTypes == {"id", "string", "String", "picklist"}
UnsizedTypes == {"DateTime", "timestamp with time zone", "boolean", "number", "numeric", "date"}
SqlLengths == {Blank, Length(0), Length(1), Length(2), Length(LengthThreshold),
               Length(LengthThreshold + 1)}

\* retrieve_table_columns_types_and_lengths: column -> (type, length), at least
\* one column.
FieldsDicts ==
    UNION {{f \in [S -> [type : SizedTypes \cup UnsizedTypes, length : SqlLengths]] :
               \A c \in S : f[c].type \in UnsizedTypes => f[c].length = Blank} :
           S \in {T \in SUBSET SqlColumns : T # {} /\ Cardinality(T) <= MaxFields}}

InitSql ==
    /\ AppIdle
    /\ DocsIdle
    /\ RunIdle
    /\ extract_type = "full"
    /\ LoadIdle
    /\ VerifyIdle
    /\ ConnIdle
    /\ creation_columns \in FieldsDicts
    /\ is_picklist \in BOOLEAN
    /\ column_types = NoSql
    /\ headers_str = {}
    /\ columns_added = {}
    /\ qpc = "create"

\* create_table: CREATE TABLE with create_sql_str of the declared columns.
create_table_sql ==
    /\ qpc = "create"
    /\ column_types' = create_sql_str(creation_columns, is_picklist)
    /\ qpc' = "created"
    /\ UNCHANGED <<runVars, loadVars, verifyVars, connVars, docsVars, appVars, creation_columns, is_picklist, headers_str,
                   columns_added>>

\* get_csv_headers: the headers of the updates file, each passed through
\* update_table_name_that_starts_with_digit, are the column list of COPY.
get_csv_headers ==
    /\ qpc = "created"
    /\ headers_str' = {update_table_name_that_starts_with_digit(header) :
                          header \in DOMAIN creation_columns}
    /\ qpc' = "loaded"
    /\ UNCHANGED <<runVars, loadVars, verifyVars, connVars, docsVars, appVars, creation_columns, is_picklist, column_types,
                   columns_added>>

\* redshift_update_table, the comparison of the declared columns with the
\* current columns of the table: the loop over the declared columns raises
\* KeyError at a column the table does not have under that name.
compare_columns ==
    LET current_columns == DOMAIN column_types.columns
        new_columns == DOMAIN creation_columns
    IN  /\ qpc = "loaded"
        /\ columns_added' = new_columns \ current_columns
        /\ qpc' = IF current_columns = new_columns \/ current_columns \cap new_columns # {}
                  THEN IF new_columns \subseteq current_columns THEN "verified" ELSE "KeyError"
                  ELSE IF new_columns \ current_columns # {} THEN "add" ELSE "verified"
        /\ UNCHANGED <<runVars, loadVars, verifyVars, connVars, docsVars, appVars, creation_columns, is_picklist, column_types,
                       headers_str>>

NextSql ==
    \/ create_table_sql
    \/ get_csv_headers
    \/ compare_columns

SpecSql == InitSql /\ [][NextSql]_vars

\* ================================================================= SpecConn
\* The pool of one phase on the one RedshiftConnection object the threads
\* share. Every call of the object is two steps: connect_to_database and
\* cursor.execute, then commit and the decision to close.
PhaseKinds == {"plan", "verify", "load", "delete"}

\* The calls of one unit of work: "exists" is table_exists_query_execution,
\* "columns" is get_db_column_names, "keep" is run_query(query, True) and
\* "close" is run_query(query, False).
Calls(kind) ==
    CASE kind = "plan" -> <<"exists", "exists">>                  \* process_row
      [] kind = "verify" -> <<"columns">>                          \* redshift_update_table
      [] kind = "load" -> <<"keep", "keep", "close">>              \* incremental load_full_data
      [] kind = "delete" -> <<"exists", "exists", "keep", "keep", "close">>  \* delete_data_logic

\* A storage that is one slot for all threads.
shared_slot(t) == 1

\* threading.local(): the slot of thread_local.conn the thread t reads and writes.
thread_local_slot(t) == t

\* run_query called without keep_connection_open.
keep_connection_never(call) == FALSE

\* run_query: keep_connection_open of the call.
keep_connection_open(call) == call = "keep"

Connection(t, st) == [opener |-> t, st |-> st, users |-> {t}, reused |-> FALSE]

InitConn ==
    /\ AppIdle
    /\ DocsIdle
    /\ RunIdle
    /\ extract_type = "incremental"
    /\ LoadIdle
    /\ VerifyIdle
    /\ SqlIdle
    /\ phase_kind \in PhaseKinds
    /\ queued \in 1 .. MaxUnits
    /\ work = [t \in Threads |-> <<>>]
    /\ inflight = [t \in Threads |-> "none"]
    /\ thread_local_conn = [t \in Threads |-> 0]
    \* the flag as the main thread or the pool of the phase before left it
    /\ connected \in BOOLEAN
    /\ connections = <<>>
    /\ chain = [t \in Threads |-> {}]

\* ThreadPoolExecutor: an idle thread takes the next unit of work.
take_unit(t) ==
    /\ work[t] = <<>> /\ inflight[t] = "none"
    /\ queued > 0
    /\ queued' = queued - 1
    /\ work' = [work EXCEPT ![t] = Calls(phase_kind)]
    /\ UNCHANGED <<runVars, loadVars, verifyVars, sqlVars, docsVars, appVars, phase_kind, inflight,
                   thread_local_conn, connected, connections, chain>>

\* connect_to_database and cursor.execute of the next call of the unit. An
\* exception (OperationalError of connect, or of execute on a lost connection)
\* ends the unit; no handler closes the connection or resets thread_local.conn.
connect_and_execute(t) ==
    LET call == Head(work[t])
        slot == thread_local_slot(t)
        con == thread_local_conn[slot]
        id == Len(connections) + 1
        in_chain == call \in {"keep", "close"}
    IN  /\ work[t] # <<>> /\ inflight[t] = "none"
        /\ \E outcome \in {"ok", "connect_failed", "execute_failed"} :
             IF con = 0
             THEN IF outcome = "connect_failed"
                  THEN /\ work' = [work EXCEPT ![t] = <<>>]
                       /\ chain' = [chain EXCEPT ![t] = {}]
                       /\ UNCHANGED <<inflight, thread_local_conn, connected, connections>>
                  ELSE /\ connections' =
                            Append(connections,
                                   Connection(t, IF outcome = "ok" THEN "open" ELSE "failed"))
                       /\ thread_local_conn' = [thread_local_conn EXCEPT ![slot] = id]
                       /\ connected' = TRUE
                       /\ IF outcome = "ok"
                          THEN /\ inflight' = [inflight EXCEPT ![t] = call]
                               /\ chain' = [chain EXCEPT ![t] =
                                               IF in_chain THEN @ \cup {id} ELSE @]
                               /\ UNCHANGED work
                          ELSE /\ work' = [work EXCEPT ![t] = <<>>]
                               /\ chain' = [chain EXCEPT ![t] = {}]
                               /\ UNCHANGED inflight
             ELSE /\ outcome # "connect_failed"
                  /\ LET good == connections[con].st = "open" /\ outcome = "ok"
                     IN  /\ connections' =
                              [connections EXCEPT
                                  ![con].users = @ \cup {t},
                                  ![con].reused = IF connections[con].st = "failed" THEN TRUE ELSE @,
                                  ![con].st = IF good THEN @
                                              ELSE IF @ = "closed" THEN @ ELSE "failed"]
                         /\ IF good
                            THEN /\ inflight' = [inflight EXCEPT ![t] = call]
                                 /\ chain' = [chain EXCEPT ![t] =
                                                 IF in_chain THEN @ \cup {con} ELSE @]
                                 /\ UNCHANGED work
                            ELSE /\ work' = [work EXCEPT ![t] = <<>>]
                                 /\ chain' = [chain EXCEPT ![t] = {}]
                                 /\ UNCHANGED inflight
                  /\ UNCHANGED <<thread_local_conn, connected>>
        /\ UNCHANGED <<runVars, loadVars, verifyVars, sqlVars, docsVars, appVars, phase_kind, queued>>

\* The end of the call: run_query closes unless keep_connection_open;
\* table_exists_query_execution and get_db_column_names close when
\* self.connected is False.
finish_call(t) ==
    LET call == inflight[t]
        slot == thread_local_slot(t)
        con == thread_local_conn[slot]
        closes == IF call \in {"keep", "close"} THEN ~keep_connection_open(call)
                  ELSE ~connected
    IN  /\ call # "none"
        /\ inflight' = [inflight EXCEPT ![t] = "none"]
        /\ work' = [work EXCEPT ![t] = Tail(@)]
        /\ chain' = [chain EXCEPT ![t] = IF Tail(work[t]) = <<>> THEN {} ELSE @]
        /\ IF closes /\ con # 0
           THEN /\ connections' = [connections EXCEPT ![con].st = "closed",
                                                      ![con].users = @ \cup {t}]
                /\ thread_local_conn' = [thread_local_conn EXCEPT ![slot] = 0]
                /\ connected' = FALSE
           ELSE UNCHANGED <<connections, thread_local_conn, connected>>
        /\ UNCHANGED <<runVars, loadVars, verifyVars, sqlVars, docsVars, appVars, phase_kind, queued>>

NextConn ==
    \/ \E t \in Threads : take_unit(t)
    \/ \E t \in Threads : connect_and_execute(t)
    \/ \E t \in Threads : finish_call(t)

SpecConn == InitConn /\ [][NextConn]_vars

\* ================================================================= SpecDocs
\* The chain of extract_docs job steps (job/run.py) over the document-version-ID
\* file that retrieve_document_source_content_async wrote.

\* The lists json.dumps(doc_version_ids) can hold: the IDs of the updated
\* document versions, each once.
DocIdLists ==
    UNION {{f \in [1 .. n -> 1 .. MaxDocs] : \A i, j \in 1 .. n : f[i] = f[j] => i = j} :
           n \in 0 .. MaxDocs}

\* doc_version_ids_list[:batch_size]
first_batch(doc_version_ids_list) ==
    SubSeq(doc_version_ids_list, 1,
           IF Len(doc_version_ids_list) < BatchSize THEN Len(doc_version_ids_list) ELSE BatchSize)

\* doc_version_ids_list[batch_size:]
remaining_batch(doc_version_ids_list) ==
    SubSeq(doc_version_ids_list, BatchSize + 1, Len(doc_version_ids_list))

\* retrieve_document_source_content_async has put the file and submitted the
\* first step.
InitDocs ==
    /\ AppIdle
    /\ RunIdle
    /\ extract_type = "incremental"
    /\ LoadIdle
    /\ VerifyIdle
    /\ SqlIdle
    /\ ConnIdle
    /\ file_exists = TRUE
    /\ file_content \in DocIdLists
    /\ original = file_content
    /\ doc_version_ids = <<>>
    /\ exported = EmptyBag
    /\ dpc = "start"

\* step == "extract_docs": if check_file_exists_s3(...), else the step ends.
extract_docs_check ==
    /\ dpc = "start"
    /\ dpc' = IF file_exists THEN "retrieve" ELSE "finished"
    /\ UNCHANGED <<runVars, loadVars, verifyVars, sqlVars, connVars, appVars, file_exists, file_content,
                   original, doc_version_ids, exported>>

\* retrieve_doc_version_ids_from_s3: get_object and json.loads, then put_object of
\* the remaining IDs or delete_object, and the first batch is returned; an
\* exception of the read is caught by the step, with the file as it was.
retrieve_doc_version_ids_from_s3 ==
    /\ dpc = "retrieve"
    /\ \E ok \in BOOLEAN :
         IF ok
         THEN /\ doc_version_ids' = first_batch(file_content)
              /\ file_content' = remaining_batch(file_content)
              /\ file_exists' = (remaining_batch(file_content) # <<>>)
              /\ dpc' = "export"
         ELSE /\ dpc' = "resubmit"
              /\ UNCHANGED <<file_exists, file_content, doc_version_ids>>
    /\ UNCHANGED <<runVars, loadVars, verifyVars, sqlVars, connVars, appVars, original, exported>>

\* export_documents and download_documents_to_s3: a response other than SUCCESS
\* and an exception are logged by the step and nothing else.
export_documents ==
    /\ dpc = "export"
    /\ \E ok \in BOOLEAN :
         exported' = IF ok THEN exported (+) SetToBag(Range(doc_version_ids)) ELSE exported
    /\ dpc' = "resubmit"
    /\ UNCHANGED <<runVars, loadVars, verifyVars, sqlVars, connVars, appVars, file_exists, file_content,
                   original, doc_version_ids>>

\* The end of the step: start_batch_job of the next step if
\* check_file_exists_s3(...), else 'All documents exported successfully'.
extract_docs_resubmit ==
    /\ dpc = "resubmit"
    /\ dpc' = IF file_exists THEN "start" ELSE "finished"
    /\ doc_version_ids' = <<>>
    /\ UNCHANGED <<runVars, loadVars, verifyVars, sqlVars, connVars, appVars, file_exists, file_content,
                   original, exported>>

NextDocs ==
    \/ extract_docs_check
    \/ retrieve_doc_version_ids_from_s3
    \/ export_documents
    \/ extract_docs_resubmit

SpecDocs == InitDocs /\ [][NextDocs]_vars

\* ================================================================== SpecApp
\* create_new_redshift_tables of common/direct_data_files_interface.py, the
\* engine of app/run.py: one loop over the tables, then update_reference_columns.

\* The columns with a reference a table can have in the metadata catalog.
ReferenceColumnSets ==
    {{}, {[column_name |-> "b__c", related_extract |-> ObjectB]},
         {[column_name |-> "a__c", related_extract |-> ObjectA]}}

\* The lists of tables to create: at most MaxUnits tables, each once.
CreateLists ==
    UNION {{f \in [1 .. n -> {ObjectA, ObjectB}] : \A i, j \in 1 .. n : f[i] = f[j] => i = j} :
           n \in 1 .. MaxUnits}

\* A statement of the log.
Sql(op, t, ok) == [op |-> op, tbl |-> t, ok |-> ok]

InitApp ==
    /\ RunIdle
    /\ extract_type = "full"
    /\ LoadIdle
    /\ VerifyIdle
    /\ SqlIdle
    /\ ConnIdle
    /\ DocsIdle
    /\ app_table_names \in CreateLists
    /\ reference_columns \in [{ObjectA, ObjectB} -> ReferenceColumnSets]
    /\ relation_alter_table_and_columns = <<>>
    /\ table_index = 0
    /\ reference_index = 0
    /\ sql_log = <<>>
    /\ apc = "loop"

\* An engine that adds the foreign keys of a table as soon as the table is created.
update_reference_columns_in_loop(created, referenced) == referenced < created

\* update_reference_columns is called when the loop over table_names has ended.
update_reference_columns_called(created, referenced) == created = Len(app_table_names)

\* The body of the loop: the references of the table enter the dict, then
\* create_redshift_table, which raises when the statement fails.
app_create_redshift_table ==
    /\ apc = "loop"
    /\ table_index < Len(app_table_names)
    /\ LET table == app_table_names[table_index + 1]
       IN  /\ relation_alter_table_and_columns' =
                  Append(relation_alter_table_and_columns,
                         [table |-> table, columns |-> reference_columns[table]])
           /\ \E ok \in BOOLEAN :
                /\ sql_log' = Append(sql_log, Sql("create_table", table.tbl, ok))
                /\ apc' = IF ok THEN "loop" ELSE "raised"
    /\ table_index' = table_index + 1
    /\ UNCHANGED <<runVars, loadVars, verifyVars, sqlVars, connVars, docsVars, app_table_names,
                   reference_columns, reference_index>>

\* update_reference_columns, one entry of the dict: add_foreign_key_constraint
\* when the table has a column with a reference; it raises when the statement
\* fails.
app_add_foreign_key_constraint ==
    /\ apc = "loop"
    /\ update_reference_columns_called(table_index, reference_index)
    /\ reference_index < Len(relation_alter_table_and_columns)
    /\ LET entry == relation_alter_table_and_columns[reference_index + 1]
       IN  IF entry.columns = {}
           THEN UNCHANGED <<sql_log, apc>>
           ELSE \E ok \in BOOLEAN :
                  /\ sql_log' = Append(sql_log, Sql("add_foreign_key", entry.table.tbl, ok))
                  /\ apc' = IF ok THEN "loop" ELSE "raised"
    /\ reference_index' = reference_index + 1
    /\ UNCHANGED <<runVars, loadVars, verifyVars, sqlVars, connVars, docsVars, app_table_names,
                   reference_columns, relation_alter_table_and_columns, table_index>>

\* create_new_redshift_tables returns.
app_create_new_redshift_tables_return ==
    /\ apc = "loop"
    /\ table_index = Len(app_table_names)
    /\ reference_index = Len(relation_alter_table_and_columns)
    /\ apc' = "returned"
    /\ UNCHANGED <<runVars, loadVars, verifyVars, sqlVars, connVars, docsVars, app_table_names,
                   reference_columns, relation_alter_table_and_columns, table_index,
                   reference_index, sql_log>>

NextApp ==
    \/ app_create_redshift_table
    \/ app_add_foreign_key_constraint
    \/ app_create_new_redshift_tables_return

SpecApp == InitApp /\ [][NextApp]_vars

\* ===================================================================== claims
\* q comes after p in the order in which verify_redshift_tables fans the phases out.
RECURSIVE ComesAfter(_, _)
ComesAfter(q, p) ==
    IF p = "done" THEN FALSE
    ELSE IF PhaseAfter(p) = q THEN TRUE ELSE ComesAfter(q, PhaseAfter(p))

LoadStmtOps == {"copy"}
DeleteStmtOps == {"delete_rows"}
ColumnStmtOps == {"drop_column", "add_column", "rebuild"}

\* C1: if the create unit or the verify unit of a table raised, no load statement
\* and no delete statement is issued for that table in the run.
C1_FailedTableNotLoaded ==
    \A p \in {"create", "verify"} : \A i \in DOMAIN pool[p] :
        pool[p][i].st = "raised" =>
            ~\E s \in stmts : s.op \in LoadStmtOps \cup DeleteStmtOps
                               /\ s.tbl = pool[p][i].arg.tbl

\* C2: the phases run in the order create, verify, load, delete: a delete unit
\* starts only when every load unit of the run has finished.
C2_DeleteAfterLoad ==
    \A i \in DOMAIN pool["delete"] :
        Started(pool["delete"][i]) =>
            \/ tables_to_load = {}
            \/ /\ pool["load"] # <<>>
               /\ \A j \in DOMAIN pool["load"] : Finished(pool["load"][j])

\* C3: each fan-out is a barrier: when a unit of a phase has started, every unit
\* of every earlier phase has returned or raised.
C3_PhaseBarrier ==
    \A p \in Phases, q \in Phases :
        (ComesAfter(q, p) /\ \E j \in DOMAIN pool[q] : Started(pool[q][j]))
            => \A i \in DOMAIN pool[p] : Finished(pool[p][i])

\* C3 witness: two units of one phase are in flight together while a unit of a
\* later phase waits to be planned after units of the earlier phases finished.
C3_Witness ==
    /\ \E i \in DOMAIN pool["load"] : pool["load"][i].st = "running"
    /\ \E i \in DOMAIN pool["create"] : pool["create"][i].st = "raised"
    /\ \E i \in DOMAIN pool["planning"] : Finished(pool["planning"][i])

\* C11: when the manifest or the metadata catalog lacks a required column, no
\* statement is issued to the warehouse and the run does not return normally.
C11_MalformedAbortsBeforeStatements ==
    malformed # "none" => (stmts = {} /\ main # "done")

\* C10: a delete-metadata row (table, id) makes the run drop the table, before
\* any unit of the verify phase starts, and no column drop, add or widen
\* statement is issued for that table in the run.
C10_RetiredTableDropped ==
    \A e \in RetiredExtracts :
        /\ (\E i \in DOMAIN pool["verify"] : Started(pool["verify"][i]))
              => Stmt("drop_table", e.tbl, TRUE) \in stmts
        /\ main = "done" => e.tbl \notin tables
        /\ ~\E s \in stmts : s.op \in ColumnStmtOps /\ s.tbl = e.tbl
\* The copies of the rows of bag b that have the key of row s.
CopiesWithKey(b, s) ==
    BagCardinality(BagRestrict(b, {r \in DOMAIN b : pk_condition(table_name, r, s)}))

\* C4: after an incremental load every natural key of the batch is the key of
\* exactly one row of the target, and that row is a row of the batch.
C4_OneRowPerBatchKey ==
    (lpc = "loaded" /\ extract_type = "incremental") =>
        \A s \in BagToSet(updates_file) :
            /\ CopiesWithKey(target, s) = 1
            /\ \A r \in BagToSet(target) :
                   pk_condition(table_name, r, s) => r \in BagToSet(updates_file)

\* C5: delete_data removes exactly the rows whose natural-key tuple is a key
\* tuple of the delete artifact, and no other row.
C5_DeleteExactlyArtifactKeys ==
    [][(lpc = "temp_copied" /\ lpc' = "deleted") =>
          target' = BagRestrict(target,
                       {r \in DOMAIN target :
                           ~\E d \in BagToSet(deletes_file) : pk_condition(table_name, r, d)})]_vars
\* The redshift_update_table call has ended.
VerifyEnded == vpc \in {"returned", "raised"} /\ table_before # NoSnapshot

\* The declared columns the table lacked when its columns were fetched.
MissingColumns == DOMAIN new_column_names \ DOMAIN table_before.columns

\* C6: when the declared column set holds columns the table lacks and shares a
\* column with it, verify returns without error, issues ADD COLUMN for exactly
\* the missing columns, and the rows are the former rows with NULL in the new
\* columns.
C6_MissingColumnsAdded ==
    (/\ VerifyEnded
     /\ MissingColumns # {}
     /\ DOMAIN new_column_names \cap DOMAIN table_before.columns # {}) =>
        /\ vpc = "returned"
        /\ \A x \in issued : x.op = "add_column" => x.cols = MissingColumns
        /\ Issue("add_column", MissingColumns) \in issued
        /\ DOMAIN table_columns = DOMAIN table_before.columns \cup MissingColumns
        /\ table_rows = InsertSelect(table_before.rows, DOMAIN table_before.columns,
                                     DOMAIN table_before.columns \cup MissingColumns)

\* C7: a verify that repeats the previous verify, which returned, with both
\* catalogs unchanged issues no schema statement.
C7_RepeatedVerifyIssuesNothing == repeat => issued = {}

\* C8: a rebuild that completes leaves the table with the columns it had and
\* with the same rows, every value of every column included.
C8_RebuildKeepsRows ==
    (VerifyEnded /\ vpc = "returned" /\ \E x \in issued : x.op = "rebuild") =>
        /\ DOMAIN table_columns = DOMAIN table_before.columns
        /\ table_rows = table_before.rows

\* C8 witness: a rebuild completed on a table holding two rows and a column the
\* catalog does not declare.
C8_Witness ==
    /\ VerifyEnded
    /\ vpc = "returned"
    /\ \E x \in issued : x.op = "rebuild"
    /\ BagCardinality(table_rows) = 2
    /\ DOMAIN table_columns \ DOMAIN new_column_names # {}

\* The width of column c of the columns cols, for a string column.
Width(cols, c) == cols[c].length[1]

\* C9: from the moment the columns of the table are fetched to the end of the
\* call, through a rebuild or an added column, no string column of the table is
\* narrower than it was.
C9_WidthNeverDecreases ==
    \A c \in DOMAIN table_before.columns :
        table_before.columns[c].length # Blank =>
            /\ (c \in DOMAIN table_columns => Width(table_columns, c) >= Width(table_before.columns, c))
            /\ (c \in DOMAIN temp_columns => Width(temp_columns, c) >= Width(table_before.columns, c))

\* C9 witness: a completed rebuild widened one column and left another at less
\* than the maximal width.
C9_Witness ==
    /\ VerifyEnded
    /\ vpc = "returned"
    /\ \E x \in issued : x.op = "rebuild"
    /\ \E c \in DOMAIN table_columns :
         Width(table_columns, c) > Width(table_before.columns, c)
    /\ \E c \in DOMAIN table_columns :
         /\ Width(table_before.columns, c) < MaxVarchar
         /\ c \notin DOMAIN new_column_names
\* The tables on which a structural statement of the run failed.
StructuralFailures ==
    {x.tbl : x \in {y \in stmts : /\ ~y.ok
                                  /\ y.op \in {"create_table", "drop_table", "drop_column",
                                               "add_column", "rebuild"}}}

\* Every planned unit of phase p, except those of the tables in skip, has ended.
PhaseExecuted(p, plan, skip) ==
    \A t \in plan :
        t.tbl \notin skip => \E i \in DOMAIN pool[p] : pool[p][i].arg = t /\ Finished(pool[p][i])

\* C12: once the manifest has been fanned out, the run ends only after the delete
\* and the load of every table on which no structural statement failed.
C12_StructuralFailureNeverStopsRun ==
    (main \in {"done", "aborted"} /\ pool["planning"] # <<>>) =>
        /\ PhaseExecuted("load", tables_to_load, StructuralFailures)
        /\ PhaseExecuted("delete", tables_to_delete, StructuralFailures)
\* C13: the run is never ended by a load or delete unit that raised, and when it
\* returns every planned load unit and delete unit has run to its end.
C13_LoadDeleteFailureIsolated ==
    /\ main = "aborted" => (pool["delete"] = <<>> /\ pool["load"] = <<>>)
    /\ main = "done" =>
          /\ PhaseExecuted("load", tables_to_load, {})
          /\ PhaseExecuted("delete", tables_to_delete, {})

\* C13 witness: the run returned, the delete unit of one table raised and the
\* load unit of another table returned.
C13_Witness ==
    /\ main = "done"
    /\ \E i \in DOMAIN pool["delete"], j \in DOMAIN pool["load"] :
         /\ pool["delete"][i].st = "raised"
         /\ pool["load"][j].st = "returned"
         /\ pool["delete"][i].arg # pool["load"][j].arg
\* The load_data step of the job: verify_redshift_tables returned without an
\* exception and 'Successfully loaded Vault Direct Data into Redshift' is logged;
\* nothing else is handed to the caller.
ReportedSuccessful == main = "done"

\* C14: the run is reported as successful only if no create, verify, load or
\* delete unit raised.
C14_SuccessOnlyWithoutFailure ==
    ReportedSuccessful =>
        \A p \in {"create", "verify", "load", "delete"} :
            \A i \in DOMAIN pool[p] : pool[p][i].st # "raised"
\* C15: when the second of two runs with the same staged files has ended, the
\* table holds the rows it held after the first run, and no natural key of the
\* updates file is the key of two rows.
C15_RerunKeepsRows ==
    (after_first_run.done /\ lpc \in {"loaded", "deleted"}) =>
        /\ target = after_first_run.rows
        /\ \A s \in BagToSet(updates_file) : CopiesWithKey(target, s) = 1
\* C16: a table planned for create without a declared column makes the run
\* abort: no CREATE TABLE statement is issued for it and the run does not go on
\* to its end with the other tables.
C16_UndeclaredTableIsFatal ==
    \A i \in DOMAIN tables_to_create :
        ~HasDeclaredColumns(tables_to_create[i]) =>
            /\ \A x \in stmts : ~(x.op = "create_table" /\ x.tbl = tables_to_create[i].tbl)
            /\ main # "done"
\* The doubled declared length, at most the maximum width.
DoubledOrMax(l) == IF 2 * l[1] < MaxVarchar THEN 2 * l[1] ELSE MaxVarchar

StringColumns == {c \in DOMAIN creation_columns : Lower(creation_columns[c].type) = "string"}

Created(c) == column_types.columns[update_table_name_that_starts_with_digit(c)]

C18_DeclaredTwoIsMax ==
    qpc # "create" =>
        \A c \in StringColumns \ {"id"} :
            creation_columns[c].length = Length(2) => Created(c).length = Length(MaxVarchar)
\* What C19 says create_sql_str makes of the column c.
DispatchOf(c) ==
    LET t == Lower(creation_columns[c].type)
        sql == Created(c)
        named_id == Lower(update_table_name_that_starts_with_digit(c)) = "id"
    IN  CASE t = "id" \/ (t = "string" /\ named_id) ->
                 sql.data_type = "character varying" /\ sql.pk
          [] t \in {"datetime", "timestamp with time zone"} ->
                 sql = Unsized("timestamp with time zone", FALSE)
          [] t = "boolean" -> sql = Unsized("boolean", FALSE)
          [] t \in {"number", "numeric"} -> sql = Unsized("numeric", named_id)
          [] t = "date" -> sql = Unsized("date", FALSE)
          [] OTHER ->
                 /\ sql.data_type = "character varying" /\ ~sql.pk
                 /\ sql.length = IF IconCase(t, creation_columns[c].length)
                                    \/ creation_columns[c].length = Blank
                                 THEN Length(MaxVarchar)
                                 ELSE Length(DoubledOrMax(creation_columns[c].length))

\* C19: create_sql_str dispatches on the lower-cased declared type of every
\* column (id, or string on a column named id: VARCHAR PRIMARY KEY; datetime or
\* timestamp with time zone: TIMESTAMPTZ; boolean: BOOLEAN; number or numeric:
\* NUMERIC, PRIMARY KEY only on a column named id; date: DATE; every other type:
\* VARCHAR at the computed width), and appends the composite primary key for
\* the picklist table only.
C19_TypeDispatch ==
    qpc # "create" =>
        /\ \A c \in DOMAIN creation_columns : DispatchOf(c)
        /\ column_types.constraint = IF is_picklist THEN PicklistPrimaryKey ELSE <<>>

C19_Witness ==
    /\ qpc # "create"
    /\ is_picklist
    /\ column_types.constraint = PicklistPrimaryKey
    /\ \E c, d \in DOMAIN creation_columns :
         /\ c = "id" /\ creation_columns[c].type = "String" /\ Created(c).pk
         /\ creation_columns[d].type = "DateTime"
         /\ Created(d).data_type = "timestamp with time zone"
\* C20: create, load and verify address a column whose name begins with a
\* digit under the same n_-prefixed name: the column list of the load is the
\* columns the table was created with, and the verify of the table against
\* the catalog it was created from finds every declared column in the table,
\* with no column to add.
C20_DigitNameAddressedAlike ==
    /\ qpc \in {"loaded", "verified", "KeyError", "add"} =>
           headers_str = DOMAIN column_types.columns
    /\ qpc \in {"verified", "KeyError", "add"} => (qpc = "verified" /\ columns_added = {})
\* C21: the digit-prefix rewrite is idempotent: rewriting a declared name twice
\* gives what rewriting it once gives, and the names create and load have
\* rewritten once are left as they are by a second rewrite.
C21_RewriteIdempotent ==
    /\ \A c \in DOMAIN creation_columns :
          update_table_name_that_starts_with_digit(update_table_name_that_starts_with_digit(c))
              = update_table_name_that_starts_with_digit(c)
    /\ \A h \in headers_str \cup DOMAIN column_types.columns :
          update_table_name_that_starts_with_digit(h) = h

C21_Witness ==
    /\ qpc = "loaded"
    /\ "1st__c" \in DOMAIN creation_columns
    /\ "n_1st__c" \in headers_str
    /\ update_table_name_that_starts_with_digit("n_1st__c") = "n_1st__c"
\* The related_extract cells of the metadata catalog: column b__c of Object.a
\* refers to Object.b and column state__v to the picklist table; every other
\* cell is empty.
RelatedExtractCells ==
    {[extract |-> ObjectA, column_name |-> "b__c", related_extract |-> ObjectB],
     [extract |-> ObjectA, column_name |-> "state__v",
      related_extract |-> Full("Picklist", "picklist__sys")]}

\* The references retrieve_table_reference_columns leaves out.
ReferenceDenylist ==
    {Full("Picklist", "picklist__sys"), Full("Object", "media__sys"),
     Full("Object", "layoutprofile__sys"), Full("Object", "tabcollection__sys")}

\* retrieve_table_reference_columns: the (column_name, related_extract) of the
\* catalog rows of the table whose reference is neither empty nor left out.
retrieve_table_reference_columns(table) ==
    {r \in RelatedExtractCells : /\ r.extract = table
                                 /\ r.extract \in metadata_dataframe
                                 /\ r.related_extract \notin ReferenceDenylist}

\* The tables the run has created.
CreatedTables ==
    {n \in Range(tables_to_create) : Stmt("create_table", n.tbl, TRUE) \in stmts}

\* C22: when the run has ended, every table it created has an ADD CONSTRAINT
\* FOREIGN KEY statement for each of its columns with a reference that is
\* neither empty nor on the denylist.
C22_ForeignKeysIssued ==
    main = "done" =>
        \A n \in CreatedTables :
            retrieve_table_reference_columns(n) # {} =>
                \E x \in stmts : x.op = "add_foreign_key" /\ x.tbl = n.tbl
\* C23: a delete unit for a table that is not in the warehouse issues no
\* statement of delete_data and returns without an error.
C23_DeleteOfMissingTableSkipped ==
    \A i \in DOMAIN pool["delete"] :
        LET u == pool["delete"][i]
        IN  (Finished(u) /\ u.arg.tbl \notin tables) =>
                /\ u.st = "returned"
                /\ \A x \in stmts : ~(x.op \in DeleteStmtOps /\ x.tbl = u.arg.tbl)

C23_Witness ==
    \E i \in DOMAIN pool["delete"] :
        /\ pool["delete"][i].st = "returned"
        /\ pool["delete"][i].arg.tbl \notin tables
        /\ schema_exists
\* Planning has ended and no create unit has been handed to the pool yet.
PlanningEnded == main = "create" /\ ~active /\ pool["create"] = <<>>

\* C24: when planning has ended, the table of every well-formed manifest row
\* with a non-zero record count is in the verify plan if it is in the
\* warehouse and in the create plan if it is not.
C24_EveryRowPlanned ==
    (PlanningEnded /\ malformed = "none") =>
        \A r \in manifest :
            (r.records > 0 /\ ~(extract_type = "full" /\ r.extract.tbl = "metadata")) =>
                IF r.extract.tbl \in tables
                THEN r.extract \in Range(tables_to_verify)
                ELSE r.extract \in Range(tables_to_create)
\* C25: within a phase no two units of work have the same table; in particular
\* no two create units, so that CREATE TABLE is issued once per table.
C25_OneUnitPerTable ==
    \A p \in {"create", "verify", "delete", "load"} :
        \A i, j \in DOMAIN pool[p] :
            pool[p][i].arg.tbl = pool[p][j].arg.tbl => i = j
\* The connections a thread has opened and not closed.
OpenConnections(t) ==
    {c \in DOMAIN connections : connections[c].opener = t /\ connections[c].st = "open"}

\* C26: every thread has at most one open connection, and every connection
\* has been executed on, committed and closed by the thread that opened it only.
C26_ConnectionPerThread ==
    /\ \A t \in Threads : Cardinality(OpenConnections(t)) <= 1
    /\ \A c \in DOMAIN connections : connections[c].users = {connections[c].opener}

C26_Witness ==
    /\ \A t \in Threads : Cardinality(OpenConnections(t)) = 1
    /\ \E t \in Threads : inflight[t] # "none"

\* The run_query calls the unit of thread t has still to make.
ChainPending(t) == work[t] # <<>> /\ \A k \in DOMAIN work[t] : work[t][k] \in {"keep", "close"}

\* C27: from the statement that creates the temporary table to the last
\* statement of an incremental load or a delete, the statements run on one
\* connection, and it is open as long as a statement is left to run.
C27_ChainOnOneConnection ==
    \A t \in Threads :
        (phase_kind \in {"load", "delete"} /\ chain[t] # {}) =>
            /\ Cardinality(chain[t]) = 1
            /\ ChainPending(t)
            /\ \A c \in chain[t] : connections[c].st = "open"

C27_Witness ==
    /\ \E t \in Threads :
         /\ inflight[t] = "close"
         /\ Cardinality(chain[t]) = 1
    /\ \E c \in DOMAIN connections : connections[c].st = "closed"
    /\ ~connected

\* C28: a thread whose unit of work has ended, returned or raised, has no open
\* connection.
C28_UnitEndClosesConnection ==
    \A t \in Threads : (work[t] = <<>> /\ inflight[t] = "none") => OpenConnections(t) = {}

\* C29: no call executes on a connection on which a call has failed.
C29_FailedConnectionNotReused ==
    \A c \in DOMAIN connections : ~connections[c].reused
\* A verify unit has handed the declared columns of the warehouse table t to
\* redshift_update_table, which fetches the current columns and compares.
Compared(t) ==
    \E i \in DOMAIN pool["verify"] :
        /\ Finished(pool["verify"][i])
        /\ is_table_in_extract(metadata_dataframe, pool["verify"][i].arg)
        /\ WarehouseName(pool["verify"][i].arg) = t

\* C30: when the verify phase has returned, every table that planning placed in
\* the verify plan and whose columns the metadata catalog declares has been
\* compared with its declared columns.
C30_PlannedTableCompared ==
    main \in {"delete", "load", "done"} =>
        \A n \in Range(tables_to_verify) :
            (HasDot(n) /\ HasDeclaredColumns(n) /\ n \notin tables_dropped) => Compared(n.tbl)

\* The declared columns the call found too narrow when the columns were fetched.
Widened ==
    {c \in DOMAIN new_column_names \cap DOMAIN table_before.columns :
        /\ table_before.columns[c].length # Blank
        /\ new_column_names[c].length # Blank
        /\ Width(table_before.columns, c) < 2 * new_column_names[c].length[1]}

\* The rebuild of the call has completed.
RebuildCompleted == VerifyEnded /\ vpc = "returned" /\ \E x \in issued : x.op = "rebuild"

\* C31: after a completed rebuild, a column the call found too narrow has the
\* width the mapper gives its declared length L at creation, min(2 * L, 64000).
C31_RebuiltWidthIsMapperWidth ==
    RebuildCompleted =>
        \A c \in Widened :
            Width(table_columns, c) = DoubledOrMax(new_column_names[c].length)

\* The operations of the schema statements issued so far in the call.
IssuedOps == {x.op : x \in issued}

\* C32: in one verify call the column drops are issued before the rebuild and
\* before the column additions, and the rebuild before the column additions: the
\* drop statement is issued when neither a rebuild nor an addition has been, and
\* the rebuild when no addition has been.
C32_DropsThenRebuildThenAdditions ==
    [][/\ (vpc = "drop" /\ columns_to_drop # {}) =>
              IssuedOps \cap {"rebuild", "add_column"} = {}
       /\ vpc = "create_temp" => "add_column" \notin IssuedOps]_vars

\* C32 witness: a call that dropped a column has gone on to rebuild the table.
C32_Witness ==
    /\ VerifyEnded
    /\ vpc = "returned"
    /\ {"drop_column", "rebuild"} \subseteq IssuedOps

\* C35: a completed rebuild leaves the column set, the type, width and key flag
\* of every column the call did not find too narrow, and the type and key flag
\* of the widened columns, as they were when the columns were fetched.
C35_RebuildChangesWidthsOnly ==
    RebuildCompleted =>
        /\ DOMAIN table_columns = DOMAIN table_before.columns
        /\ \A c \in DOMAIN table_before.columns \ Widened :
               table_columns[c] = table_before.columns[c]
        /\ \A c \in Widened :
               /\ table_columns[c].data_type = table_before.columns[c].data_type
               /\ table_columns[c].pk = table_before.columns[c].pk

\* The rebuild of the call has failed at one of its statements.
RebuildFailed == VerifyEnded /\ vpc = "raised" /\ "rebuild" \in IssuedOps

\* C36: when a rebuild has failed at one of its four statements, the table is
\* there under its name with the columns and all the rows it had, and no
\* <table>_temp is left to make the CREATE TABLE of a later rebuild fail.
C36_FailedRebuildLosesNothing ==
    RebuildFailed =>
        /\ table_columns = table_before.columns
        /\ table_rows = table_before.rows
        /\ temp_columns = NoTable

\* The types the metadata catalog declares, as opposed to the types the
\* warehouse reports.
CatalogTypes == (SizedTypes \cup UnsizedTypes) \ {"timestamp with time zone", "numeric"}

\* C37: for every column of a created table that is declared with a type of the
\* catalog, the clause redshift_add_columns_to_table writes for the column has the
\* SQL type, the width and the primary-key flag create_sql_str gave the column.
C37_AddPathIsCreatePath ==
    qpc # "create" =>
        \A c \in DOMAIN creation_columns :
            creation_columns[c].type \in CatalogTypes =>
                AddColumnSql(c, creation_columns[c].type, creation_columns[c].length) = Created(c)

\* The planning units that returned, by the row they were given.
PlannedRows == {pool["planning"][i].arg : i \in {j \in DOMAIN pool["planning"] :
                                                    pool["planning"][j].st = "returned"}}

\* The row is the Metadata.metadata row of a full run.
FullMetadataRow(r) == extract_type = "full" /\ r.extract.tbl = "metadata"

\* The number of entries of the list plan that name the extract e.
Entries(plan, e) == Cardinality({k \in DOMAIN plan : plan[k] = e})

\* C34 as stated: in a full run a row with record count zero is planned like any
\* row but for an existing table, so that the updates row of an absent table is
\* planned for load.
C34_ZeroRowOfAbsentTableLoaded ==
    (PlanningEnded /\ malformed = "none" /\ extract_type = "full") =>
        \A r \in PlannedRows :
            (/\ r.records = 0
             /\ r.type = "updates"
             /\ ~FullMetadataRow(r)
             /\ r.extract.tbl \notin tables) => r.extract \in tables_to_load

\* C34, amended: a row with record count zero makes no existence check and enters
\* no plan in an incremental run; in a full run it enters the create plan when
\* the table is absent and the delete plan when it is a deletes row, and never the
\* verify plan or the load plan, but for the Metadata.metadata row, which enters
\* the load plan only. The plans are those of the rows with records and these.
C34_ZeroRecordRowByRunKind ==
    /\ \A i \in DOMAIN pool["planning"] :
           (/\ malformed = "none"
            /\ extract_type # "full"
            /\ pool["planning"][i].arg.records = 0) => pool["planning"][i].pc = 0
    /\ (PlanningEnded /\ malformed = "none") =>
           \A e \in {r.extract : r \in manifest} :
               LET rows == {r \in PlannedRows : r.extract = e}
                   with_records == {r \in rows : r.records > 0 /\ ~FullMetadataRow(r)}
                   zero_full == {r \in rows : /\ r.records = 0
                                              /\ extract_type = "full"
                                              /\ ~FullMetadataRow(r)}
               IN  /\ Entries(tables_to_verify, e) =
                          Cardinality({r \in with_records : e.tbl \in tables})
                   /\ Entries(tables_to_create, e) =
                          Cardinality({r \in with_records \cup zero_full : e.tbl \notin tables})
                   /\ e \in tables_to_load <=>
                          \E r \in rows : \/ FullMetadataRow(r)
                                          \/ r \in with_records /\ r.type = "updates"
                   /\ e \in tables_to_delete <=>
                          \E r \in with_records \cup zero_full : r.type = "deletes"

\* C34 witness: planning of a full run has ended with a zero-record updates row of
\* an absent table in the create plan and not in the load plan, and a zero-record
\* deletes row in the delete plan.
C34_Witness ==
    /\ PlanningEnded
    /\ malformed = "none"
    /\ extract_type = "full"
    /\ \E r \in PlannedRows :
         /\ r.records = 0 /\ r.type = "updates" /\ ~FullMetadataRow(r)
         /\ r.extract.tbl \notin tables
         /\ r.extract \in Range(tables_to_create)
         /\ r.extract \notin tables_to_load
    /\ \E r \in PlannedRows :
         r.records = 0 /\ r.type = "deletes" /\ r.extract \in tables_to_delete

\* C38: when the chain of extract_docs steps has ended, the file is gone and
\* every ID of the original file has been handed to exactly one export request
\* that succeeded, whether or not an export or a read of the file failed on the
\* way.
C38_ChainExportsEveryId ==
    dpc = "finished" =>
        /\ ~file_exists
        /\ exported = SetToBag(Range(original))

\* C33: a statement that adds a foreign key is issued only after the CREATE TABLE
\* of every table of the run has been issued and has ended.
C33_ForeignKeysAfterAllCreates ==
    \A i \in DOMAIN sql_log :
        sql_log[i].op = "add_foreign_key" =>
            \A k \in DOMAIN app_table_names :
                \E j \in 1 .. i - 1 : sql_log[j] = Sql("create_table", app_table_names[k].tbl, TRUE)

\* C33 witness: two tables have been created and the foreign keys of the first
\* table of the list have been added.
C33_Witness ==
    /\ Len(app_table_names) = 2
    /\ \E i \in DOMAIN sql_log :
         sql_log[i] = Sql("add_foreign_key", app_table_names[1].tbl, TRUE)
====
